---- MODULE Spec2Model ----
(***************************************************************************)
(* Model of the capability router: Planner.plan (filter, score, sort,      *)
(* best-first execution with fallback under an overall deadline), the      *)
(* SimpleScorer, and the TraceStore (capacity and TTL bounded event log).  *)
(*                                                                         *)
(* JavaScript runs one callback at a time, so every action below is the    *)
(* code that runs between two suspension points: plan() from entry to its  *)
(* first `await executor.execute`, and from one executor settlement to the *)
(* next await or to the return.                                            *)
(*                                                                         *)
(* Abstractions: an optional field is a sequence of length 0 or 1; a       *)
(* number that may be non-finite is a record [fin, v]; scores are in units *)
(* of 1e-6 and cost_estimate in tenths, so that the arithmetic of          *)
(* SimpleScorer is exact integer arithmetic; trace ids are drawn from a    *)
(* counter (the code's random ids are assumed not to collide); an event    *)
(* keeps its type, the tool id and the rank, and drops its timestamp and   *)
(* the rest of its payload; latencies are not modelled.                    *)
(*                                                                         *)
(* The module also models the PolicyService (rule resolution, allow and    *)
(* deny lists, time windows, cached schema validators), the POST /plan     *)
(* handler that runs preCheck before the planner, and a TraceStore driven  *)
(* directly by create / record / get.  A string the policy code splits is  *)
(* a sequence of tokens; a JSON object is the set of its property names.   *)
(* Spec is the planner, PolicySpec the policy service, RouteSpec the       *)
(* handler with the planner behind it, StoreSpec the store on its own.     *)
(*                                                                         *)
(* The FileRegistryLoader is modelled with the arrays it allocates kept    *)
(* apart from the snapshot that refers to one of them, one record per      *)
(* loadAll() call suspended at its awaits, and a directory that changes    *)
(* under it.  LoaderSpec is the loader on its own, ReloadSpec the loader   *)
(* with a plan running beside it, OverlapSpec the loader with room for     *)
(* the rebuilds of two events.  The two gauges that main keeps around      *)
(* loader.start() are fields of the metrics record.                        *)
(*                                                                         *)
(* ScoreSpec ranks two tools over a range of p95_ms and cost_estimate      *)
(* values, among them a cost so small that double rounding absorbs its     *)
(* term of the score.  LiveSpec is one plan() call over an executor whose  *)
(* calls all settle.                                                       *)
(***************************************************************************)
EXTENDS Integers, Sequences, FiniteSets, TLC

\* ---------------------------------------------------------------- bounds
MaxTools == 2          \* longest registry snapshot
MaxTime == 2           \* the clock stops advancing here
MaxTraceOpt == 2       \* largest maxTraces / ttlMs constructor option
MaxCreates == 3        \* most create() calls made on a store used on its own
MaxEvents == 1         \* most events recorded on one trace of such a store
MaxLoads == 2          \* most loadAll() calls of one loader
MaxOverlap == 3        \* the same where the rebuilds of two events overlap
MaxChanges == 1        \* most changes made to the registry directory

\* ------------------------------------------------------- small utilities
Min(a, b) == IF a < b THEN a ELSE b
Max(a, b) == IF a > b THEN a ELSE b

None == <<>>
Some(x) == <<x>>

Fin(x) == [fin |-> TRUE, v |-> x]
PosInfinity == [fin |-> FALSE, v |-> 1]
NegInfinity == [fin |-> FALSE, v |-> -1]
NaN == [fin |-> FALSE, v |-> 0]
\* a positive double below 2^-54 / wCost, such as 1e-20: the left-to-right sum
\* of the other three terms of the score is at least 0.525, where doubles are
\* 2^-53 apart, so subtracting wCost times this cost rounds back to the sum;
\* in the units of v it counts as 0
Tiny == [fin |-> TRUE, v |-> 0, tiny |-> TRUE]

\* ------------------------------------------------------------ the tools
ToolIds == {"a", "b", "t", "n", "m"}

Tools ==
  [ a |-> [id |-> "a", capabilities |-> {"c"},
           sla |-> Some([p95_ms |-> 200]), cost_estimate |-> Some(Fin(1)),
           requiresNetwork |-> FALSE, env |-> {}],
    b |-> [id |-> "b", capabilities |-> {"c"},
           sla |-> Some([p95_ms |-> 2000]), cost_estimate |-> Some(Fin(2)),
           requiresNetwork |-> TRUE, env |-> {}],
    t |-> [id |-> "t", capabilities |-> {"c", "d"},
           sla |-> Some([p95_ms |-> 200]), cost_estimate |-> Some(Fin(1)),
           requiresNetwork |-> FALSE, env |-> {"K"}],
    n |-> [id |-> "n", capabilities |-> {"c"},
           sla |-> None, cost_estimate |-> Some(PosInfinity),
           requiresNetwork |-> FALSE, env |-> {}],
    m |-> [id |-> "m", capabilities |-> {"c"},
           sla |-> None, cost_estimate |-> Some(NaN),
           requiresNetwork |-> FALSE, env |-> {}] ]

RECURSIVE SeqsUpTo(_, _)
SeqsUpTo(S, k) ==
  IF k = 0 THEN {<<>>}
  ELSE LET shorter == SeqsUpTo(S, k - 1)
       IN shorter \cup {Append(s, x) : s \in shorter, x \in S}

Range(s) == {s[i] : i \in DOMAIN s}

\* registry snapshots: sequences of distinct tools
Snapshots ==
  {[i \in DOMAIN s |-> Tools[s[i]]] :
     s \in {q \in SeqsUpTo(ToolIds, MaxTools) : Cardinality(Range(q)) = Len(q)}}

EnvValues == {None, Some(""), Some("1")}
Envs == [OFFLINE : {None, Some("")}, K : EnvValues]

Capabilities == {"", "c", "d"}

PlanContexts ==
  [capability : {None} \cup {Some(c) : c \in Capabilities},
   execute : {None, Some(TRUE), Some(FALSE)},
   timeout_ms : {None, Some(0), Some(1)}]

\* ----------------------------------------------------------- the scorer
wFit == 45
wSla == 25
wReward == 15
wCost == 15

\* values in [0,1] are in units of 1e-4
clamp01(x) == Max(0, Min(10000, x))

slaLikelihood(tool) ==
  LET p95 == IF tool.sla = None THEN 3000 ELSE tool.sla[1].p95_ms
      lik == 10000 - 2 * Min(p95, 5000)
  IN clamp01(lik)

pastReward(tool) == 5000

capabilityFit(tool) == 10000

score(tool) ==
  LET fit == capabilityFit(tool)
      sla == slaLikelihood(tool)
      reward == pastReward(tool)
      cost == IF tool.cost_estimate = None THEN Fin(0) ELSE tool.cost_estimate[1]
  IN IF cost.fin
       THEN Fin(wFit * fit + wSla * sla + wReward * reward - wCost * (cost.v * 1000))
       ELSE NegInfinity

\* ------------------------------------------------------------- the sort
\* sign of the comparator (a, b) => b.score - a.score; a NaN difference
\* (both scores -Infinity) is treated by Array.prototype.sort as 0
CompareScored(a, b) ==
  CASE a.score.fin /\ b.score.fin ->
         IF b.score.v > a.score.v THEN 1 ELSE IF b.score.v < a.score.v THEN -1 ELSE 0
    [] a.score.fin /\ ~b.score.fin -> -1
    [] ~a.score.fin /\ b.score.fin -> 1
    [] OTHER -> 0

\* an unstable insertion: the new element goes before its equals
InsertStable_Unstable(sorted, x) ==
  LET later == {i \in DOMAIN sorted : CompareScored(sorted[i], x) >= 0}
      k == IF later = {} THEN Len(sorted) + 1
           ELSE CHOOSE i \in later : \A j \in later : i <= j
  IN SubSeq(sorted, 1, k - 1) \o <<x>> \o SubSeq(sorted, k, Len(sorted))

InsertStable(sorted, x) ==
  LET later == {i \in DOMAIN sorted : CompareScored(sorted[i], x) > 0}
      k == IF later = {} THEN Len(sorted) + 1
           ELSE CHOOSE i \in later : \A j \in later : i <= j
  IN SubSeq(sorted, 1, k - 1) \o <<x>> \o SubSeq(sorted, k, Len(sorted))

RECURSIVE SortScored(_)
SortScored(s) ==
  IF s = <<>> THEN <<>>
  ELSE InsertStable(SortScored(SubSeq(s, 1, Len(s) - 1)), s[Len(s)])

\* ------------------------------------------------------------ the gates
supportsCapability(tool, capability) == capability \in tool.capabilities

\* the requiresNetwork / OFFLINE test left out
preconditionsOk_NoNetworkGate(tool, e) ==
  \A k \in tool.env : ~(e[k] = None \/ e[k] = Some(""))

preconditionsOk(tool, e) ==
  /\ ~(tool.requiresNetwork /\ e.OFFLINE # None)
  /\ \A k \in tool.env : ~(e[k] = None \/ e[k] = Some(""))

RECURSIVE Filter(_, _, _)
Filter(tools, capability, e) ==
  IF tools = <<>> THEN <<>>
  ELSE LET rest == Filter(Tail(tools), capability, e)
           h == Head(tools)
       IN IF supportsCapability(h, capability) /\ preconditionsOk(h, e)
            THEN <<h>> \o rest ELSE rest

\* ------------------------------------------------------ the policy service
\* A string the policy code splits is a sequence of tokens (its
\* concatenation is the string); a JSON object is the set of its property
\* names; a JSON schema keeps type 'object', required, properties and
\* additionalProperties.

\* String.prototype.split(sep): the parts between the separators
RECURSIVE Split(_, _)
Split(s, sep) ==
  IF \A i \in DOMAIN s : s[i] # sep THEN <<s>>
  ELSE LET i == CHOOSE j \in DOMAIN s : s[j] = sep /\ \A k \in 1..(j - 1) : s[k] # sep
       IN <<SubSeq(s, 1, i - 1)>> \o Split(SubSeq(s, i + 1, Len(s)), sep)

\* String.prototype.trim()
RECURSIVE Trim(_)
Trim(s) ==
  IF s = <<>> THEN s
  ELSE IF Head(s) = " " THEN Trim(Tail(s))
  ELSE IF s[Len(s)] = " " THEN Trim(SubSeq(s, 1, Len(s) - 1))
  ELSE s

TrimAll(parts) == [i \in DOMAIN parts |-> Trim(parts[i])]

\* parts[i], undefined (None) beyond the end
At(parts, i) == IF i \in DOMAIN parts THEN Some(parts[i]) ELSE None

\* !x for x : string | undefined
Falsy(x) == x = None \/ x[1] = <<>>

Numerals == [n \in {"00", "09", "17", "99"} |->
               CASE n = "00" -> 0 [] n = "09" -> 9 [] n = "17" -> 17 [] n = "99" -> 99]

\* Number(s): the empty string is 0, a numeral its value, anything else NaN (None)
NumberOf(s) ==
  IF s = <<>> THEN Some(0)
  ELSE IF Len(s) = 1 /\ s[1] \in DOMAIN Numerals THEN Some(Numerals[s[1]])
  ELSE None

\* (x || 0) for x : number | undefined
OrZero(x) == IF x = None THEN 0 ELSE x[1]

\* hmToMinutes: lines 299-302
hmToMinutes(hhmm) ==
  LET ps == Split(hhmm, ":")
      h == NumberOf(ps[1])
      m == IF Len(ps) >= 2 THEN NumberOf(ps[2]) ELSE None
  IN OrZero(h) * 60 + OrZero(m)

DayNumber == [d \in {"Mon", "Tue", "Wed", "Thu", "Fri", "Sat", "Sun"} |->
                CASE d = "Mon" -> 1 [] d = "Tue" -> 2 [] d = "Wed" -> 3 [] d = "Thu" -> 4
                  [] d = "Fri" -> 5 [] d = "Sat" -> 6 [] d = "Sun" -> 7]

\* map[label]: undefined (None) for a label that is not a key
DayOf(label) ==
  IF Len(label) = 1 /\ label[1] \in DOMAIN DayNumber THEN Some(DayNumber[label[1]]) ELSE None

\* matchDay: lines 257-288
matchDay(weekday, spec) ==
  IF \E i \in DOMAIN spec : spec[i] = "-"
    THEN LET parts == TrimAll(Split(spec, "-"))
             a == At(parts, 1)
             b == At(parts, 2)
         IN IF Falsy(a) \/ Falsy(b) THEN FALSE
            ELSE LET start == DayOf(a[1])
                     end == DayOf(b[1])
                 IN IF start = None \/ end = None THEN FALSE
                    ELSE weekday >= start[1] /\ weekday <= end[1]
    ELSE LET one == DayOf(spec)
         IN one # None /\ weekday = one[1]

\* inWindow: lines 216-245; t is the moment in the policy's time zone
inWindow(t, window) ==
  LET parts == TrimAll(Split(window, " "))
      daysPartRaw == At(parts, 1)
      hoursPartRaw == At(parts, 2)
      daysPart == IF daysPartRaw = None THEN <<>> ELSE daysPartRaw[1]
      hoursPart == IF hoursPartRaw = None THEN <<>> ELSE hoursPartRaw[1]
  IN IF ~matchDay(t.weekday, daysPart) THEN FALSE
     ELSE IF Len(hoursPart) = 0 THEN TRUE
     ELSE LET hs == TrimAll(Split(hoursPart, "-"))
              startRaw == At(hs, 1)
              endRaw == At(hs, 2)
          IN IF Falsy(startRaw) \/ Falsy(endRaw) THEN FALSE
             ELSE LET startMin == hmToMinutes(startRaw[1])
                      endMin == hmToMinutes(endRaw[1])
                      nowMin == t.hour * 60 + t.minute
                  IN nowMin >= startMin /\ nowMin <= endMin

\* inAnyWindow: lines 201-203
inAnyWindow(t, windows) == \E i \in DOMAIN windows : inWindow(t, windows[i])

\* Ajv validation of a value against a schema of type 'object'
Validate(schema, data) ==
  /\ data # None
  /\ schema.required \subseteq data[1]
  /\ schema.additionalProperties \/ data[1] \subseteq schema.properties

EmptyPolicy ==
  [allowCapabilities |-> None, denyCapabilities |-> None, timeWindows |-> None,
   preSchemas |-> None, postSchemas |-> None]

\* names every object inherits from Object.prototype
ObjectPrototypeKeys == {"constructor"}

\* obj[key] for a plain object: its own entry, else an inherited member, else
\* undefined (None). An inherited member read as a TenantPolicy has none of
\* the rule fields.
Member(obj, key) ==
  IF key \in DOMAIN obj THEN Some(obj[key])
  ELSE IF key \in ObjectPrototypeKeys THEN Some(EmptyPolicy)
  ELSE None

\* rulesFor: lines 155-161
rulesFor(d, tenant) ==
  IF tenant # None /\ tenant[1] # "" /\ d.tenants # None /\ Member(d.tenants[1], tenant[1]) # None
    THEN Member(d.tenants[1], tenant[1])[1]
    ELSE IF d.default = None THEN EmptyPolicy ELSE d.default[1]

\* compile: lines 173-193; a validator is the schema it was compiled from
compile(cc, kind, capability, schema) ==
  IF capability \in DOMAIN cc[kind]
    THEN [compiled |-> cc, validator |-> cc[kind][capability]]
    ELSE [compiled |-> [cc EXCEPT ![kind] =
                          [k \in DOMAIN cc[kind] \cup {capability} |->
                             IF k = capability THEN schema ELSE cc[kind][k]]],
          validator |-> schema]

Allow == [allow |-> TRUE, code |-> "", detail |-> ""]
Deny(code, detail) == [allow |-> FALSE, code |-> code, detail |-> detail]

\* the time window tested before the capability lists
preCheck_TimeFirst(d, cc, ctx) ==
  LET rules == rulesFor(d, ctx.tenant)
      cap == ctx.capability
  IN IF rules.timeWindows # None /\ Len(rules.timeWindows[1].allow) > 0
          /\ ~inAnyWindow(ctx.now, rules.timeWindows[1].allow)
       THEN [decision |-> Deny("TIME_DENIED", "Outside allowed windows"), compiled |-> cc]
     ELSE IF rules.allowCapabilities # None /\ cap \notin rules.allowCapabilities[1]
       THEN [decision |-> Deny("CAPABILITY_DENIED", "Not in allowCapabilities"), compiled |-> cc]
     ELSE IF rules.denyCapabilities # None /\ cap \in rules.denyCapabilities[1]
       THEN [decision |-> Deny("CAPABILITY_DENIED", "Listed in denyCapabilities"), compiled |-> cc]
     ELSE IF rules.preSchemas # None /\ cap \in DOMAIN rules.preSchemas[1]
       THEN LET c == compile(cc, "pre", cap, rules.preSchemas[1][cap])
            IN [decision |-> IF Validate(c.validator, ctx.input) THEN Allow
                             ELSE Deny("INPUT_INVALID", "Pre-schema validation failed"),
                compiled |-> c.compiled]
     ELSE [decision |-> Allow, compiled |-> cc]

\* preCheck: lines 73-113; the decision and the validator cache afterwards
preCheck(d, cc, ctx) ==
  LET rules == rulesFor(d, ctx.tenant)
      cap == ctx.capability
  IN IF rules.allowCapabilities # None /\ cap \notin rules.allowCapabilities[1]
       THEN [decision |-> Deny("CAPABILITY_DENIED", "Not in allowCapabilities"), compiled |-> cc]
     ELSE IF rules.denyCapabilities # None /\ cap \in rules.denyCapabilities[1]
       THEN [decision |-> Deny("CAPABILITY_DENIED", "Listed in denyCapabilities"), compiled |-> cc]
     ELSE IF rules.timeWindows # None /\ Len(rules.timeWindows[1].allow) > 0
          /\ ~inAnyWindow(ctx.now, rules.timeWindows[1].allow)
       THEN [decision |-> Deny("TIME_DENIED", "Outside allowed windows"), compiled |-> cc]
     ELSE IF rules.preSchemas # None /\ cap \in DOMAIN rules.preSchemas[1]
       THEN LET c == compile(cc, "pre", cap, rules.preSchemas[1][cap])
            IN [decision |-> IF Validate(c.validator, ctx.input) THEN Allow
                             ELSE Deny("INPUT_INVALID", "Pre-schema validation failed"),
                compiled |-> c.compiled]
     ELSE [decision |-> Allow, compiled |-> cc]

Pass == [pass |-> TRUE, code |-> "", detail |-> ""]
Fail(code, detail) == [pass |-> FALSE, code |-> code, detail |-> detail]

\* postCheck: lines 125-142
postCheck(d, cc, args) ==
  LET rules == rulesFor(d, args.tenant)
  IN IF rules.postSchemas = None \/ args.capability \notin DOMAIN rules.postSchemas[1]
       THEN [decision |-> Pass, compiled |-> cc]
     ELSE LET c == compile(cc, "post", args.capability, rules.postSchemas[1][args.capability])
          IN [decision |-> IF Validate(c.validator, args.output) THEN Pass
                           ELSE Fail("POST_CONDITION_FAILED", "Post-schema validation failed"),
              compiled |-> c.compiled]

\* ---- the policy documents, requests and moments the model draws from
WMonFri == <<"Mon", "-", "Fri", " ", "09", ":", "00", "-", "17", ":", "00">>
WSat == <<"Sat">>
WUnknownDay == <<"Xyz", " ", "09", ":", "00", "-", "17", ":", "00">>
WOpenRange == <<"Mon", "-", " ", "09", ":", "00", "-", "17", ":", "00">>
WNoEnd == <<"Mon", " ", "09", ":", "00">>
WDashNoEnd == <<"Mon", " ", "09", ":", "00", "-">>
WBadStart == <<"Mon", " ", "9am", "-", "17", ":", "00">>
WBadEnd == <<"Mon", " ", "09", ":", "00", "-", "5pm">>

WellFormedWindows == {WMonFri, WSat}
MalformedWindows == {WUnknownDay, WOpenRange, WNoEnd, WDashNoEnd, WBadStart, WBadEnd}

\* Monday 08:00, Monday 10:00 and Saturday 10:00 in the policy's time zone
Moments ==
  {[weekday |-> 1, hour |-> 8, minute |-> 0],
   [weekday |-> 1, hour |-> 10, minute |-> 0],
   [weekday |-> 6, hour |-> 10, minute |-> 0]}

SchemaMrn == [required |-> {"mrn"}, properties |-> {"mrn"}, additionalProperties |-> FALSE]
SchemaOpen == [required |-> {}, properties |-> {}, additionalProperties |-> TRUE]
SchemaIdName == [required |-> {"id", "name"}, properties |-> {"id", "name"},
                 additionalProperties |-> TRUE]
SchemaId == [required |-> {"id"}, properties |-> {"id"}, additionalProperties |-> TRUE]

JsonValues == {None, Some({"mrn"}), Some({"id"}), Some({"id", "name"})}

PolStrict ==
  [allowCapabilities |-> Some({"c"}), denyCapabilities |-> Some({"d"}),
   timeWindows |-> Some([allow |-> <<WMonFri>>]),
   preSchemas |-> Some([k \in {"c", "d"} |-> SchemaMrn]),
   postSchemas |-> Some([k \in {"c"} |-> SchemaIdName])]

PolDeny ==
  [allowCapabilities |-> None, denyCapabilities |-> Some({"c"}),
   timeWindows |-> Some([allow |-> <<WMonFri, WSat>>]),
   preSchemas |-> Some([k \in {"c"} |-> SchemaMrn]),
   postSchemas |-> None]

PolLoose ==
  [allowCapabilities |-> None, denyCapabilities |-> None, timeWindows |-> None,
   preSchemas |-> Some([k \in {"c"} |-> SchemaOpen]),
   postSchemas |-> Some([k \in {"c"} |-> SchemaId])]

PolWindows(ws) == [EmptyPolicy EXCEPT !.timeWindows = Some([allow |-> ws])]

PolMalformedOnly ==
  PolWindows(<<WUnknownDay, WOpenRange, WNoEnd, WDashNoEnd, WBadStart, WBadEnd>>)

Policies ==
  {EmptyPolicy, PolStrict, PolDeny, PolLoose, PolMalformedOnly, PolWindows(<<>>)}
    \cup {PolWindows(<<w>>) : w \in WellFormedWindows \cup MalformedWindows}

TenantMaps ==
  {[D \in {} |-> EmptyPolicy],
   [D \in {"tA"} |-> PolStrict],
   [D \in {"tA", "tB"} |-> IF D = "tA" THEN PolStrict ELSE PolLoose],
   [D \in {"tA", "tB"} |-> IF D = "tA" THEN PolLoose ELSE EmptyPolicy]}

\* documents with a default policy only, and documents with tenant entries
PolicyDocs ==
  [default : {None} \cup {Some(pol) : pol \in Policies}, tenants : {None}]
    \cup [default : {None, Some(PolStrict), Some(PolLoose)},
          tenants : {Some(tm) : tm \in TenantMaps}]

\* the tenant field of a request: absent, empty, known or unknown to the document
TenantArgs == {None, Some(""), Some("tA"), Some("tB"), Some("constructor")}

PolicyCapabilities == {"c", "d"}

\* ------------------------------------------------------ the registry loader
\* A file of the registry directory is its syntax and the document it holds;
\* a document keeps its `tools` and `updatedAt` properties (absent or
\* present) and whether it satisfies the tool schema.

\* fs.readdir order of the names the directory may hold
FileNames == <<"a.yaml", "b.json", "notes.txt">>

Extension == [f \in Range(FileNames) |->
                CASE f = "a.yaml" -> "yaml" [] f = "b.json" -> "json" [] OTHER -> "txt"]

\* line 40: /\.(ya?ml|json)$/.test(f)
IsRegistryFile(f) == Extension[f] \in {"yaml", "yml", "json"}

\* a tool document: no `tools`, no `updatedAt`
ToolDoc(x, ok) == [tools |-> None, updatedAt |-> None, ok |-> ok, tool |-> Some(Tools[x])]

\* a registry document {tools, updatedAt}; as a tool document it is invalid
RegistryDoc(entries, updatedAt) ==
  [tools |-> Some(entries), updatedAt |-> updatedAt, ok |-> FALSE, tool |-> None]

Item(x, ok) == [ok |-> ok, tool |-> Tools[x]]

FileA == [syntax |-> "yaml", obj |-> ToolDoc("a", TRUE)]
FileRegistry ==
  [syntax |-> "json", obj |-> RegistryDoc(<<Item("b", TRUE), Item("t", TRUE)>>, Some("date"))]
FileBadTool == [syntax |-> "yaml", obj |-> ToolDoc("a", FALSE)]
FileGarbage == [syntax |-> "bad", obj |-> ToolDoc("a", FALSE)]

\* what a file may hold: the documents above, another tool, a registry with
\* an invalid entry, one without updatedAt, one whose updatedAt is no date
FileContents ==
  {FileA, FileRegistry, FileBadTool, FileGarbage,
   [syntax |-> "json", obj |-> ToolDoc("t", TRUE)],
   [syntax |-> "json", obj |-> RegistryDoc(<<Item("b", TRUE), Item("t", FALSE)>>, Some("date"))],
   [syntax |-> "json", obj |-> RegistryDoc(<<Item("b", TRUE)>>, None)],
   [syntax |-> "json", obj |-> RegistryDoc(<<Item("b", TRUE)>>, Some("yesterday"))]}

\* line 42: JSON.parse for *.json, yaml.parse otherwise; None when the parser
\* throws (YAML accepts JSON text, JSON does not accept YAML text)
Parse(f, content) ==
  IF content.syntax = "bad" \/ (Extension[f] = "json" /\ content.syntax = "yaml")
    THEN None ELSE Some(content.obj)

\* validator.validateRegistry: tools an array of valid tools, updatedAt a date-time
validateRegistry(obj) ==
  /\ obj.tools # None
  /\ \A i \in DOMAIN obj.tools[1] : obj.tools[1][i].ok
  /\ obj.updatedAt = Some("date")

\* validator.validateTool
validateTool(obj) == obj.ok

\* lines 42-51: the tools one file contributes, None when the iteration throws
Accepted(f, content) ==
  LET parsed == Parse(f, content)
  IN IF parsed = None THEN None
     ELSE LET obj == parsed[1]
          IN IF obj.tools # None /\ obj.updatedAt # None
               THEN IF validateRegistry(obj)
                      THEN Some([i \in DOMAIN obj.tools[1] |-> obj.tools[1][i].tool])
                      ELSE None
               ELSE IF validateTool(obj) THEN Some(<<obj.tool[1]>>) ELSE None

\* the names fs.readdir resolves with
Listing(dir) == SelectSeq(FileNames, LAMBDA f : f \in DOMAIN dir)

\* the for-of loop: the first name at or after position i that passes line 40
NextFile(listing, i) ==
  LET later == {j \in i..Len(listing) : IsRegistryFile(listing[j])}
  IN IF later = {} THEN Len(listing) + 1 ELSE CHOOSE j \in later : \A k \in later : j <= k

\* the published array handed to the loop
NewArray_InPlace(arrs, cur) == cur.tools

\* line 38: const tools = [], an array no one else holds
NewArray(arrs, cur) == Cardinality(DOMAIN arrs)

\* a snapshot published after every file
Publishes_EachFile(listing, j) == TRUE

\* line 53 is reached when the loop has run out of names
Publishes(listing, j) == j > Len(listing)

\* ------------------------------------------------------------ the state
VARIABLES
  registry,    \* FileRegistryLoader.current.tools, the published snapshot
  env,         \* process.env
  maxTraces,   \* TraceStore.maxTraces
  ttlMs,       \* TraceStore.ttlMs
  traces,      \* TraceStore.traces: id -> [id, createdAt, events]
  order,       \* TraceStore.order: ids in insertion order
  nextId,      \* source of fresh trace ids
  now,         \* Date.now()
  plans,       \* one record per plan() call: its locals, result and call logs
  metrics,     \* the counters the planner increments
  doc,         \* PolicyService.doc
  compiled,    \* PolicyService.compiled: per kind, capability -> compiled schema
  lastCheck,   \* the latest preCheck / postCheck call and its decision
  requests,    \* one record per POST /plan request: its pre-check decision and reply
  storeLog,    \* creation times and ids that get() reported absent, kept beside the store
  files,       \* the registry directory: name -> content, and how often it was changed
  current,     \* FileRegistryLoader.current: the array it refers to and updatedAt
  arrays,      \* the Tool[] arrays allocated so far: array -> its elements
  loads,       \* one record per loadAll() call
  watching     \* the chokidar watcher is installed

vars == <<registry, env, maxTraces, ttlMs, traces, order, nextId, now, plans, metrics,
          doc, compiled, lastCheck, requests, storeLog,
          files, current, arrays, loads, watching>>

loaderVars == <<files, current, arrays, loads, watching>>

auxVars == <<doc, compiled, lastCheck, requests, storeLog, loaderVars>>

Plans == {"p1", "p2"}

\* --------------------------------------------------------- the TraceStore
isExpired(tr, ttl, time) == time - tr.createdAt > ttl

\* delete(id): drop the map entry and splice the first occurrence out of order
\* a delete that removes the trace from the map only
TSdelete_KeepOrder(st, id) ==
  [traces |-> [k \in DOMAIN st.traces \ {id} |-> st.traces[k]], order |-> st.order]

TSdelete(st, id) ==
  LET hits == {i \in DOMAIN st.order : st.order[i] = id}
      idx == IF hits = {} THEN 0 ELSE CHOOSE i \in hits : \A j \in hits : i <= j
  IN [traces |-> [k \in DOMAIN st.traces \ {id} |-> st.traces[k]],
      order |-> IF idx = 0 THEN st.order
                ELSE SubSeq(st.order, 1, idx - 1) \o SubSeq(st.order, idx + 1, Len(st.order))]

\* the TTL loop of prune(), over a copy of order
RECURSIVE TSpruneTtl(_, _, _, _)
TSpruneTtl(st, ids, ttl, time) ==
  IF ids = <<>> THEN st
  ELSE LET id == Head(ids)
           st1 == IF id \in DOMAIN st.traces /\ isExpired(st.traces[id], ttl, time)
                    THEN TSdelete(st, id) ELSE st
       IN TSpruneTtl(st1, Tail(ids), ttl, time)

\* the capacity loop with >= instead of >
RECURSIVE TSpruneCap_OffByOne(_, _)
TSpruneCap_OffByOne(st, cap) ==
  IF Len(st.order) >= cap /\ st.order # <<>>
    THEN TSpruneCap_OffByOne(
           [traces |-> [k \in DOMAIN st.traces \ {Head(st.order)} |-> st.traces[k]],
            order |-> Tail(st.order)], cap)
    ELSE st

\* a capacity loop that drops the newest instead of the oldest
RECURSIVE TSpruneCap_DropNewest(_, _)
TSpruneCap_DropNewest(st, cap) ==
  IF Len(st.order) > cap
    THEN TSpruneCap_DropNewest(
           [traces |-> [k \in DOMAIN st.traces \ {st.order[Len(st.order)]} |-> st.traces[k]],
            order |-> SubSeq(st.order, 1, Len(st.order) - 1)], cap)
    ELSE st

\* the capacity loop of prune(): shift the oldest while order is too long
RECURSIVE TSpruneCap(_, _)
TSpruneCap(st, cap) ==
  IF Len(st.order) > cap
    THEN TSpruneCap([traces |-> [k \in DOMAIN st.traces \ {Head(st.order)} |-> st.traces[k]],
                     order |-> Tail(st.order)], cap)
    ELSE st

TSprune(st, cap, ttl, time) == TSpruneCap(TSpruneTtl(st, st.order, ttl, time), cap)

TScreate(st, id, cap, ttl, time) ==
  LET tr == [id |-> id, createdAt |-> time, events |-> <<>>]
      st1 == [traces |-> [k \in DOMAIN st.traces \cup {id} |->
                            IF k = id THEN tr ELSE st.traces[k]],
              order |-> Append(st.order, id)]
  IN TSprune(st1, cap, ttl, time)

\* a record that puts the newest event first
TSrecord_Prepend(st, id, ev) ==
  IF id \notin DOMAIN st.traces THEN st
  ELSE [st EXCEPT !.traces[id].events = <<ev>> \o @]

\* record(id, type, data): lines 45-49
TSrecord(st, id, ev) ==
  IF id \notin DOMAIN st.traces THEN st
  ELSE [st EXCEPT !.traces[id].events = Append(@, ev)]

\* a get that returns whatever is stored, expired or not
TSget_NoExpiry(st, id, ttl, time) ==
  IF id \notin DOMAIN st.traces THEN [st |-> st, trace |-> None]
  ELSE [st |-> st, trace |-> Some(st.traces[id])]

\* get(id): the store afterwards and the value returned
TSget(st, id, ttl, time) ==
  IF id \notin DOMAIN st.traces THEN [st |-> st, trace |-> None]
  ELSE IF isExpired(st.traces[id], ttl, time)
         THEN [st |-> TSdelete(st, id), trace |-> None]
         ELSE [st |-> st, trace |-> Some(st.traces[id])]

\* ------------------------------------------------------------ the planner
Store == [traces |-> traces, order |-> order]

ExecOutcomes ==
  {[kind |-> "return", status |-> "success", outputOk |-> TRUE],
   [kind |-> "return", status |-> "success", outputOk |-> FALSE],
   [kind |-> "return", status |-> "failure", outputOk |-> TRUE],
   [kind |-> "return", status |-> "timeout", outputOk |-> TRUE],
   [kind |-> "throw", status |-> "none", outputOk |-> TRUE]}

IdlePlan ==
  [pc |-> "idle", execute |-> TRUE, timeout_ms |-> None, traceId |-> 0,
   startedAt |-> 0, capability |-> "", tools |-> <<>>,
   scored |-> <<>>, rank |-> 0, armedAt |-> 0, aborted |-> FALSE, timer |-> "none",
   result |-> None, recs |-> <<>>, listCalls |-> 0, scoreCalls |-> <<>>, calls |-> <<>>,
   outcomes |-> <<>>]

\* Planner.rec: TraceStore.record, then traceEventsTotal.inc(); log keeps the
\* types the plan has passed to rec, whether or not the store kept them
Rec(w, id, type, toolId, rk) ==
  LET st == TSrecord([traces |-> w.traces, order |-> w.order], id,
                     [type |-> type, toolId |-> toolId, rank |-> rk])
  IN [traces |-> st.traces, order |-> st.order,
      metrics |-> [w.metrics EXCEPT !.traceEventsTotal = @ + 1],
      log |-> Append(w.log, type)]

\* plan() lines 69-75: create the trace, count it, record the request
Entry ==
  LET st == TScreate(Store, nextId, maxTraces, ttlMs, now)
  IN Rec([traces |-> st.traces, order |-> st.order,
          metrics |-> [metrics EXCEPT !.traceCreatedTotal = @ + 1],
          log |-> <<>>],
         nextId, "request", "", 0)

CapabilityOf(c) == IF c.capability = None THEN "" ELSE c.capability[1]

\* a test for undefined only, which lets the empty string through
IsInvalid_MissingOnly(c) == c.capability = None

\* line 78: !capability
IsInvalid(c) == CapabilityOf(c) = ""

ExecuteOf(c) == c.execute # Some(FALSE)

Candidates(c) == Filter(registry, CapabilityOf(c), env)

\* candidates.map(score).sort(...)
Scored(c) ==
  SortScored([i \in DOMAIN Candidates(c) |->
                [toolId |-> Candidates(c)[i].id,
                 score |-> score(Candidates(c)[i]),
                 tool |-> Candidates(c)[i]]])

ResultCandidates(sc) == [i \in DOMAIN sc |-> [toolId |-> sc[i].toolId, score |-> sc[i].score]]

RECURSIVE IncBids(_, _, _)
IncBids(m, capability, cands) ==
  IF cands = <<>> THEN m
  ELSE IncBids([m EXCEPT !.plannerBidsTotal[<<capability, Head(cands).id>>] = @ + 1],
               capability, Tail(cands))

Commit(w) ==
  /\ traces' = w.traces
  /\ order' = w.order
  /\ metrics' = w.metrics
  /\ nextId' = nextId + 1
  /\ UNCHANGED <<registry, env, maxTraces, ttlMs, now>>

\* plan() with a missing or empty capability: lines 69-82
PlanInvalid(p, c) ==
  /\ plans[p].pc = "idle"
  /\ IsInvalid(c)
  /\ LET w == Rec(Entry, nextId, "failure", "", 0)
     IN /\ Commit(w)
        /\ plans' = [plans EXCEPT ![p] =
             [@ EXCEPT !.pc = "done", !.execute = ExecuteOf(c), !.traceId = nextId, !.startedAt = now, !.recs = w.log,
                !.result = Some([traceId |-> nextId, capability |-> "",
                                 candidates |-> <<>>, selected |-> None,
                                 execution |-> Some([status |-> "failure",
                                                     error |-> "INPUT_INVALID"])])]]

\* plan() when no tool passes the gates: lines 69-95
PlanNoCandidates(p, c) ==
  /\ plans[p].pc = "idle"
  /\ ~IsInvalid(c)
  /\ Candidates(c) = <<>>
  /\ LET w == Rec(Rec(Entry, nextId, "no_candidates", "", 0), nextId, "failure", "", 0)
     IN /\ Commit(w)
        /\ plans' = [plans EXCEPT ![p] =
             [@ EXCEPT !.pc = "done", !.execute = ExecuteOf(c), !.traceId = nextId, !.startedAt = now, !.recs = w.log,
                !.capability = CapabilityOf(c), !.tools = registry, !.listCalls = @ + 1,
                !.result = Some([traceId |-> nextId, capability |-> CapabilityOf(c),
                                 candidates |-> <<>>, selected |-> None,
                                 execution |-> Some([status |-> "failure",
                                                     error |-> "NO_CANDIDATES"])])]]

\* lines 97-118: score, count the bids, sort, record the scores
AfterScores(c) ==
  LET w == Entry
  IN Rec([w EXCEPT !.metrics = IncBids(w.metrics, CapabilityOf(c), Candidates(c))],
         nextId, "scores", "", 0)

\* the other end of the sorted array
TopCandidate_Last(sc) == sc[Len(sc)]

\* line 122: scored[0]
TopCandidate(sc) == sc[1]

\* plan() in decision-only mode: lines 69-129
PlanOnly(p, c) ==
  /\ plans[p].pc = "idle"
  /\ ~IsInvalid(c)
  /\ Candidates(c) # <<>>
  /\ ~ExecuteOf(c)
  /\ LET sc == Scored(c)
         w0 == AfterScores(c)
         top == TopCandidate(sc)
         w == Rec([w0 EXCEPT !.metrics.plannerSelectionTotal[<<CapabilityOf(c), top.toolId>>] = @ + 1],
                  nextId, "selected", top.toolId, 0)
     IN /\ Commit(w)
        /\ plans' = [plans EXCEPT ![p] =
             [@ EXCEPT !.pc = "done", !.execute = ExecuteOf(c), !.traceId = nextId, !.startedAt = now, !.recs = w.log,
                !.capability = CapabilityOf(c), !.tools = registry, !.listCalls = @ + 1,
                !.scored = sc,
                !.scoreCalls = [i \in DOMAIN Candidates(c) |-> Candidates(c)[i].id],
                !.result = Some([traceId |-> nextId, capability |-> CapabilityOf(c),
                                 candidates |-> ResultCandidates(sc),
                                 selected |-> Some([toolId |-> top.toolId]),
                                 execution |-> None])]]

\* a timer armed for every timeout_ms that is given
Arms_AnyNumber(c) == c.timeout_ms # None

\* line 134: `ctx.timeout_ms && ctx.timeout_ms > 0`
Arms(c) == c.timeout_ms # None /\ c.timeout_ms[1] > 0

\* plan() in executing mode up to the first await: lines 69-118, 131-152
PlanExecute(p, c) ==
  /\ plans[p].pc = "idle"
  /\ ~IsInvalid(c)
  /\ Candidates(c) # <<>>
  /\ ExecuteOf(c)
  /\ LET sc == Scored(c)
         w == Rec(AfterScores(c), nextId, "attempt", sc[1].toolId, 1)
     IN /\ Commit(w)
        /\ plans' = [plans EXCEPT ![p] =
             [@ EXCEPT !.pc = "awaiting", !.execute = ExecuteOf(c), !.traceId = nextId, !.startedAt = now, !.recs = w.log,
                !.capability = CapabilityOf(c), !.tools = registry, !.listCalls = @ + 1,
                !.scored = sc,
                !.scoreCalls = [i \in DOMAIN Candidates(c) |-> Candidates(c)[i].id],
                !.rank = 1,
                !.timeout_ms = c.timeout_ms,
                !.timer = IF Arms(c) THEN "armed" ELSE "none",
                !.armedAt = now,
                !.calls = <<sc[1].toolId>>,
                !.result = Some([traceId |-> nextId, capability |-> CapabilityOf(c),
                                 candidates |-> ResultCandidates(sc),
                                 selected |-> None, execution |-> None])]]

\* a clearTimeout that leaves the timer pending
ClearTimer_Never(timer) == timer

\* clearTimeout(overallTimeout): a pending timer is cancelled, a fired one stays fired
ClearTimer(timer) == IF timer = "armed" THEN "cleared" ELSE timer

\* a returned timeout handled like a failure
ExecRes_TimeoutAsFailure(pl, out) ==
  IF out.kind = "throw"
    THEN [status |-> IF pl.aborted THEN "timeout" ELSE "failure", error |-> "thrown"]
    ELSE [status |-> IF out.status = "timeout" THEN "failure" ELSE out.status,
          error |-> CASE out.status = "failure" -> "HTTP_500"
                      [] out.status = "timeout" -> "tool-timeout"
                      [] OTHER -> ""]

\* a fired deadline overriding whatever the executor returned
ExecRes_AbortWins(pl, out) ==
  IF out.kind = "throw" \/ pl.aborted
    THEN [status |-> IF pl.aborted THEN "timeout" ELSE "failure",
          error |-> IF out.kind = "throw" THEN "thrown" ELSE "overall-timeout"]
    ELSE [status |-> out.status,
          error |-> CASE out.status = "failure" -> "HTTP_500"
                      [] out.status = "timeout" -> "tool-timeout"
                      [] OTHER -> ""]

\* a thrown error classified without looking at the abort signal
ExecRes_ThrowAsFailure(pl, out) ==
  IF out.kind = "throw"
    THEN [status |-> "failure", error |-> "thrown"]
    ELSE [status |-> out.status,
          error |-> CASE out.status = "failure" -> "HTTP_500"
                      [] out.status = "timeout" -> "tool-timeout"
                      [] OTHER -> ""]

\* lines 150-157: what the attempt yields, a thrown error being normalised
ExecRes(pl, out) ==
  IF out.kind = "throw"
    THEN [status |-> IF pl.aborted THEN "timeout" ELSE "failure", error |-> "thrown"]
    ELSE [status |-> out.status,
          error |-> CASE out.status = "failure" -> "HTTP_500"
                      [] out.status = "timeout" -> "tool-timeout"
                      [] OTHER -> ""]

\* a deadline that is never looked at after a failure
DeadlineElapsed_Never(pl) == FALSE

\* line 190: overallController.signal.aborted, read after the fallback is recorded
DeadlineElapsed(pl) == pl.aborted

\* a loop that stops one candidate early
HasNext_OffByOne(pl) == pl.rank + 1 < Len(pl.scored)

\* the for-of loop over scored has another candidate after the current one
HasNext(pl) == pl.rank < Len(pl.scored)

\* a loop that ranks the registry again before each further attempt
NextCandidate_Reread(pl) ==
  LET sc == Scored([capability |-> Some(pl.capability)])
  IN IF pl.rank + 1 <= Len(sc) THEN sc[pl.rank + 1] ELSE pl.scored[pl.rank + 1]

\* a loop that does not advance
NextCandidate_Same(pl) == pl.scored[pl.rank]

\* the candidate the next iteration of the for-of loop binds to cand
NextCandidate(pl) == pl.scored[pl.rank + 1]

\* the top-ranked candidate reported whichever one succeeded
SuccessResult_TopRanked(pl, cand, execRes) ==
  [pl.result[1] EXCEPT !.selected = Some([toolId |-> pl.scored[1].toolId]),
                       !.execution = Some(execRes)]

\* lines 166-167: the result of a successful attempt
SuccessResult(pl, cand, execRes) ==
  [pl.result[1] EXCEPT !.selected = Some([toolId |-> cand.toolId]),
                       !.execution = Some(execRes)]

\* The executor settles the outstanding call of plan p: lines 152-207, up to
\* the return of plan() or to the next await.
ExecSettles(p, out) ==
  LET pl == plans[p]
      id == pl.traceId
      cand == pl.scored[pl.rank]
      execRes == ExecRes(pl, out)
      w0 == [traces |-> traces, order |-> order, metrics |-> metrics, log |-> pl.recs]
      logged == [pl EXCEPT !.outcomes = Append(@, [kind |-> out.kind, status |-> out.status,
                                                   outputOk |-> out.outputOk,
                                                   aborted |-> pl.aborted])]
  IN
  /\ pl.pc = "awaiting"
  /\ UNCHANGED <<registry, env, maxTraces, ttlMs, nextId, now>>
  /\ IF execRes.status = "success" THEN
       \* 3a) success: select, record, return
       LET w1 == [w0 EXCEPT !.metrics.plannerSelectionTotal[<<pl.capability, cand.toolId>>] = @ + 1]
           w2 == Rec(Rec(w1, id, "selected", cand.toolId, 0), id, "success", cand.toolId, 0)
       IN /\ traces' = w2.traces /\ order' = w2.order /\ metrics' = w2.metrics
          /\ plans' = [plans EXCEPT ![p] =
               [logged EXCEPT !.pc = "done", !.timer = ClearTimer(@), !.recs = w2.log,
                  !.result = Some(SuccessResult(pl, cand, execRes))]]
     ELSE IF execRes.status = "timeout" THEN
       \* 3b) tool-level timeout: terminal
       LET w1 == Rec(w0, id, "timeout", cand.toolId, 0)
       IN /\ traces' = w1.traces /\ order' = w1.order /\ metrics' = w1.metrics
          /\ plans' = [plans EXCEPT ![p] =
               [logged EXCEPT !.pc = "done", !.timer = ClearTimer(@), !.recs = w1.log,
                  !.result = Some([pl.result[1] EXCEPT !.execution = Some(execRes)])]]
     ELSE
       \* 3c) failure: count and record the fallback
       LET w1 == Rec([w0 EXCEPT !.metrics.plannerFallbacksTotal[pl.capability] = @ + 1],
                     id, "fallback", cand.toolId, 0)
       IN IF DeadlineElapsed(pl) THEN
            \* the overall deadline elapsed while failing
            LET w2 == Rec(w1, id, "timeout", "", 0)
            IN /\ traces' = w2.traces /\ order' = w2.order /\ metrics' = w2.metrics
               /\ plans' = [plans EXCEPT ![p] =
                    [logged EXCEPT !.pc = "done", !.timer = ClearTimer(@), !.recs = w2.log,
                       !.result = Some([pl.result[1] EXCEPT
                            !.execution = Some([status |-> "timeout",
                                                error |-> "overall-timeout"])])]]
          ELSE IF HasNext(pl) THEN
            \* next iteration of the loop: attempt the next candidate
            LET next == NextCandidate(pl)
                w2 == Rec(w1, id, "attempt", next.toolId, pl.rank + 1)
            IN /\ traces' = w2.traces /\ order' = w2.order /\ metrics' = w2.metrics
               /\ plans' = [plans EXCEPT ![p] =
                    [logged EXCEPT !.rank = @ + 1, !.calls = Append(@, next.toolId),
                       !.recs = w2.log]]
          ELSE
            \* 4) all candidates failed
            LET w2 == Rec(w1, id, "failure", "", 0)
            IN /\ traces' = w2.traces /\ order' = w2.order /\ metrics' = w2.metrics
               /\ plans' = [plans EXCEPT ![p] =
                    [logged EXCEPT !.pc = "done", !.timer = ClearTimer(@), !.recs = w2.log,
                       !.result = Some([pl.result[1] EXCEPT
                            !.execution = Some([status |-> "failure",
                                                error |-> "ALL_CANDIDATES_FAILED"])])]]

\* a timer callback that records the timeout itself
DeadlineFires_Records(p) ==
  /\ plans[p].timer = "armed"
  /\ now - plans[p].armedAt >= plans[p].timeout_ms[1]
  /\ LET w == Rec([traces |-> traces, order |-> order, metrics |-> metrics,
                   log |-> plans[p].recs],
                  plans[p].traceId, "timeout", "", 0)
     IN /\ traces' = w.traces /\ order' = w.order /\ metrics' = w.metrics
        /\ plans' = [plans EXCEPT ![p].aborted = TRUE, ![p].timer = "fired", ![p].recs = w.log]
  /\ UNCHANGED <<registry, env, maxTraces, ttlMs, nextId, now>>

\* The overall-deadline timer of plan p fires: lines 134-138. A pending timer
\* fires whether or not plan() has returned.
DeadlineFires(p) ==
  /\ plans[p].timer = "armed"
  /\ now - plans[p].armedAt >= plans[p].timeout_ms[1]
  /\ plans' = [plans EXCEPT ![p].aborted = TRUE, ![p].timer = "fired"]
  /\ UNCHANGED <<registry, env, maxTraces, ttlMs, traces, order, nextId, now, metrics>>

\* GET /trace/:id, TraceStore.get with its lazy delete
TraceGet(id) ==
  /\ id \in DOMAIN traces
  /\ LET r == TSget(Store, id, ttlMs, now)
     IN /\ traces' = r.st.traces
        /\ order' = r.st.order
  /\ UNCHANGED <<registry, env, maxTraces, ttlMs, nextId, now, plans, metrics>>

\* Time passes
Tick ==
  /\ now < MaxTime
  /\ now' = now + 1
  /\ UNCHANGED <<registry, env, maxTraces, ttlMs, traces, order, nextId, plans, metrics>>

\* new TraceStore(opts): lines 30-34
TraceStoreOptions ==
  {None} \cup {Some([maxTraces |-> a, ttlMs |-> b]) : a \in 0..MaxTraceOpt, b \in 0..MaxTraceOpt}

DefaultMaxTraces == 1000
DefaultTtlMs == 900000

InitStore(opts) ==
  /\ maxTraces = Max(1, IF opts = None THEN DefaultMaxTraces ELSE opts[1].maxTraces)
  /\ ttlMs = Max(1, IF opts = None THEN DefaultTtlMs ELSE opts[1].ttlMs)
  /\ traces = <<>>
  /\ order = <<>>

\* ------------------------------------------- the policy service as a machine
plannerVars == <<registry, env, maxTraces, ttlMs, traces, order, nextId, now, plans, metrics>>

EmptyCompiled == [pre |-> <<>>, post |-> <<>>]

NoCheck == [kind |-> "none"]

\* policy.preCheck(ctx) called on the service
PreCheck(tenant, capability, input, t) ==
  LET r == preCheck(doc, compiled,
                    [tenant |-> tenant, capability |-> capability, input |-> input, now |-> t])
  IN /\ compiled' = r.compiled
     /\ lastCheck' = [kind |-> "pre", tenant |-> tenant, capability |-> capability,
                      data |-> input, now |-> t, decision |-> r.decision]
     /\ UNCHANGED <<doc, requests, storeLog, loaderVars>>
     /\ UNCHANGED plannerVars

\* policy.postCheck(args) called on the service
PostCheck(tenant, capability, output) ==
  LET r == postCheck(doc, compiled,
                     [tenant |-> tenant, capability |-> capability, output |-> output])
  IN /\ compiled' = r.compiled
     /\ lastCheck' = [kind |-> "post", tenant |-> tenant, capability |-> capability,
                      data |-> output, decision |-> r.decision]
     /\ UNCHANGED <<doc, requests, storeLog, loaderVars>>
     /\ UNCHANGED plannerVars

\* new PolicyService(doc): lines 50-59
InitPolicy(d) ==
  /\ doc = d
  /\ compiled = EmptyCompiled
  /\ lastCheck = NoCheck

\* a document with neither default nor tenants
NoPolicy == [default |-> None, tenants |-> None]

NoRequest == [pre |-> None, reply |-> None]

NoStoreLog == [created |-> <<>>, absent |-> {}, recorded |-> {}]

\* FileRegistryLoader line 15: the snapshot a new loader holds
InitialSnapshot == [tools |-> 0, updatedAt |-> 0]

\* a loader that is not running, holding one published snapshot
FixedRegistry ==
  /\ files = [dir |-> <<>>, changes |-> 0]
  /\ current = InitialSnapshot
  /\ arrays = [a \in {0} |-> registry]
  /\ loads = <<>>
  /\ watching = FALSE

ZeroMetrics ==
  [traceCreatedTotal |-> 0, traceEventsTotal |-> 0,
   plannerBidsTotal |-> [k \in Capabilities \X ToolIds |-> 0],
   plannerSelectionTotal |-> [k \in Capabilities \X ToolIds |-> 0],
   plannerFallbacksTotal |-> [k \in Capabilities |-> 0],
   toolsLoaded |-> 0, toolLoadErrors |-> 0]

\* a service over any document, with no request under way
PolicyInit ==
  /\ \E d \in PolicyDocs : InitPolicy(d)
  /\ registry = <<>>
  /\ env = [OFFLINE |-> None, K |-> None]
  /\ InitStore(None)
  /\ plans = [p \in {"p1"} |-> IdlePlan]
  /\ requests = [p \in {"p1"} |-> NoRequest]
  /\ storeLog = NoStoreLog
  /\ FixedRegistry
  /\ nextId = 1
  /\ now = 0
  /\ metrics = ZeroMetrics

PolicyNext ==
  \/ \E tenant \in TenantArgs, capability \in PolicyCapabilities,
        input \in JsonValues, t \in Moments : PreCheck(tenant, capability, input, t)
  \/ \E tenant \in TenantArgs, capability \in PolicyCapabilities,
        output \in JsonValues : PostCheck(tenant, capability, output)

PolicySpec == PolicyInit /\ [][PolicyNext]_vars

\* --------------------------------------------------------- POST /plan
\* request bodies the route's body schema accepts
PlanBodies ==
  [tenant : {None, Some("tA")}, capability : Capabilities,
   input : {None, Some({"mrn"})}, execute : {None, Some(FALSE)},
   timeout_ms : {None, Some(1)}]

\* lines 135-148: the context handed to the planner
PlannerCtx(body) ==
  [capability |-> Some(body.capability),
   execute |-> Some(body.execute # Some(FALSE)),
   timeout_ms |-> body.timeout_ms]

\* lines 108-116: the pre-check of the request at wall-clock moment t
RoutePre(body, t) ==
  preCheck(doc, compiled,
           [tenant |-> body.tenant, capability |-> body.capability,
            input |-> body.input, now |-> t])

\* a denial that is not acted upon
Denied_Never(pre) == FALSE

\* line 118: if (!pre.allow)
Denied(pre) == ~pre.allow

\* lines 119-129
DeniedReply(body, pre) ==
  [code |-> 403,
   body |-> [traceId |-> None, capability |-> body.capability, candidates |-> <<>>,
             execution |-> [status |-> "failure", error |-> "POLICY_DENIED",
                            detail |-> pre.code]]]

\* the handler up to the decision of the pre-check
RouteChecked(p, body, t) ==
  /\ requests[p] = NoRequest
  /\ plans[p].pc = "idle"
  /\ compiled' = RoutePre(body, t).compiled
  /\ UNCHANGED <<doc, lastCheck, storeLog, loaderVars>>

\* the handler when the pre-check denies: lines 102-130
RouteDenied(p, body, t) ==
  /\ RouteChecked(p, body, t)
  /\ Denied(RoutePre(body, t).decision)
  /\ requests' = [requests EXCEPT ![p] =
       [pre |-> Some(RoutePre(body, t).decision),
        reply |-> Some(DeniedReply(body, RoutePre(body, t).decision))]]
  /\ UNCHANGED plannerVars

\* the handler when the pre-check allows, up to `await planner.plan`: lines 102-150
RouteAllowed(p, body, t) ==
  /\ RouteChecked(p, body, t)
  /\ ~Denied(RoutePre(body, t).decision)
  /\ requests' = [requests EXCEPT ![p] =
       [pre |-> Some(RoutePre(body, t).decision), reply |-> None]]

\* the handler after planner.plan has returned: line 152
RouteReply(p) ==
  /\ plans[p].pc = "done"
  /\ requests[p].pre # None
  /\ requests[p].reply = None
  /\ requests' = [requests EXCEPT ![p].reply = Some([code |-> 200, body |-> plans[p].result[1]])]
  /\ UNCHANGED <<doc, compiled, lastCheck, storeLog, loaderVars>>
  /\ UNCHANGED plannerVars

RouteDocs ==
  {[default |-> Some(PolStrict), tenants |-> None],
   [default |-> Some(EmptyPolicy), tenants |-> None],
   [default |-> Some(PolDeny), tenants |-> Some([D \in {"tA"} |-> PolLoose])]}

\* buildApp over a policy, one registry snapshot and a default store
RouteInit ==
  /\ \E d \in RouteDocs : InitPolicy(d)
  /\ registry = <<Tools.a>>
  /\ env = [OFFLINE |-> None, K |-> None]
  /\ InitStore(None)
  /\ plans = [p \in Plans |-> IdlePlan]
  /\ requests = [p \in Plans |-> NoRequest]
  /\ storeLog = NoStoreLog
  /\ FixedRegistry
  /\ nextId = 1
  /\ now = 0
  /\ metrics = ZeroMetrics

RouteNext ==
  \/ \E p \in DOMAIN plans, body \in PlanBodies, t \in Moments : RouteDenied(p, body, t)
  \/ \E p \in DOMAIN plans, body \in PlanBodies, t \in Moments :
       RouteAllowed(p, body, t) /\ PlanInvalid(p, PlannerCtx(body))
  \/ \E p \in DOMAIN plans, body \in PlanBodies, t \in Moments :
       RouteAllowed(p, body, t) /\ PlanNoCandidates(p, PlannerCtx(body))
  \/ \E p \in DOMAIN plans, body \in PlanBodies, t \in Moments :
       RouteAllowed(p, body, t) /\ PlanOnly(p, PlannerCtx(body))
  \/ \E p \in DOMAIN plans, body \in PlanBodies, t \in Moments :
       RouteAllowed(p, body, t) /\ PlanExecute(p, PlannerCtx(body))
  \/ \E p \in DOMAIN plans, out \in ExecOutcomes : ExecSettles(p, out) /\ UNCHANGED auxVars
  \/ \E p \in DOMAIN plans : DeadlineFires(p) /\ UNCHANGED auxVars
  \/ \E p \in DOMAIN plans : RouteReply(p)
  \/ Tick /\ UNCHANGED auxVars

RouteSpec == RouteInit /\ [][RouteNext]_vars

\* ------------------------------------------------ the TraceStore on its own
\* ids a caller may hold: those issued so far, and 0, which is never issued
KnownIds == 0..(nextId - 1)

StoreUnchanged == UNCHANGED <<registry, env, maxTraces, ttlMs, plans, metrics,
                              doc, compiled, lastCheck, requests, loaderVars>>

\* store.create(): lines 36-43
StoreCreate ==
  /\ nextId <= MaxCreates
  /\ LET st == TScreate(Store, nextId, maxTraces, ttlMs, now)
     IN /\ traces' = st.traces
        /\ order' = st.order
  /\ nextId' = nextId + 1
  /\ storeLog' = [storeLog EXCEPT !.created =
                    [k \in DOMAIN storeLog.created \cup {nextId} |->
                       IF k = nextId THEN now ELSE storeLog.created[k]]]
  /\ UNCHANGED now
  /\ StoreUnchanged

\* store.record(id, type, data): lines 45-49
StoreRecord(id) ==
  /\ id \in DOMAIN traces => Len(traces[id].events) < MaxEvents
  /\ LET st == TSrecord(Store, id, [type |-> "request", toolId |-> "", rank |-> 0])
     IN /\ traces' = st.traces
        /\ order' = st.order
  /\ storeLog' = IF id \in DOMAIN traces
                   THEN [storeLog EXCEPT !.recorded = @ \cup {id}] ELSE storeLog
  /\ UNCHANGED <<nextId, now>>
  /\ StoreUnchanged

\* store.get(id): lines 51-59
StoreGet(id) ==
  /\ LET r == TSget(Store, id, ttlMs, now)
     IN /\ traces' = r.st.traces
        /\ order' = r.st.order
        /\ storeLog' = IF r.trace = None
                         THEN [storeLog EXCEPT !.absent = @ \cup {id}] ELSE storeLog
  /\ UNCHANGED <<nextId, now>>
  /\ StoreUnchanged

\* store.prune(): lines 66-78
StorePrune ==
  /\ LET st == TSprune(Store, maxTraces, ttlMs, now)
     IN /\ traces' = st.traces
        /\ order' = st.order
  /\ UNCHANGED <<nextId, now, storeLog>>
  /\ StoreUnchanged

\* a store built with any options, used directly
StoreInit ==
  /\ \E opts \in TraceStoreOptions : InitStore(opts)
  /\ registry = <<>>
  /\ env = [OFFLINE |-> None, K |-> None]
  /\ plans = [p \in {"p1"} |-> IdlePlan]
  /\ requests = [p \in {"p1"} |-> NoRequest]
  /\ InitPolicy(NoPolicy)
  /\ storeLog = NoStoreLog
  /\ FixedRegistry
  /\ nextId = 1
  /\ now = 0
  /\ metrics = ZeroMetrics

StoreNext ==
  \/ StoreCreate
  \/ \E id \in KnownIds : StoreRecord(id)
  \/ \E id \in KnownIds : StoreGet(id)
  \/ StorePrune
  \/ Tick /\ UNCHANGED auxVars

StoreSpec == StoreInit /\ [][StoreNext]_vars

\* ---------------------------------------------- the loader as a machine
\* One record per loadAll() call: where it is suspended, the names readdir
\* gave it, the position of the file being read, the array it pushes to, and
\* the contents it has read so far.
NewLoad(isStart) ==
  [pc |-> "readdir", start |-> isStart, listing |-> <<>>, idx |-> 0, arr |-> 0, reads |-> <<>>]

\* getRegistry().tools / RegistryService.list()
List(arrs, cur) == arrs[cur.tools]

\* The loop from position j to its next `await fs.readFile`, or past its end
\* to line 53; start() goes on to install the watcher once loadAll resolves.
\* When the load that start() awaits reaches line 53, main goes on to set
\* the toolsLoaded gauge (server.ts line 17).
LoopFrom(r, l, arrs, j) ==
  LET finished == j > Len(l.listing)
  IN /\ arrays' = arrs
     /\ current' = IF Publishes(l.listing, j)
                     THEN [tools |-> l.arr, updatedAt |-> now] ELSE current
     /\ loads' = [loads EXCEPT ![r] = [l EXCEPT !.pc = IF finished THEN "done" ELSE "readFile",
                                                !.idx = j]]
     /\ watching' = (watching \/ (finished /\ l.start))
     /\ registry' = List(arrays', current')
     /\ metrics' = IF finished /\ l.start
                     THEN [metrics EXCEPT !.toolsLoaded = Len(List(arrays', current'))]
                     ELSE metrics

LoaderUnchanged == UNCHANGED <<env, maxTraces, ttlMs, traces, order, nextId, now, plans,
                               doc, compiled, lastCheck, requests, storeLog>>

\* loader.start(): lines 24-25, up to the await inside loadAll
Start ==
  /\ loads = <<>>
  /\ loads' = <<NewLoad(TRUE)>>
  /\ UNCHANGED <<registry, files, current, arrays, watching, metrics>>
  /\ LoaderUnchanged

\* a watcher callback of lines 27-29 runs loadAll up to its first await
Rebuild(cap) ==
  /\ watching
  /\ Len(loads) < cap
  /\ loads' = Append(loads, NewLoad(FALSE))
  /\ UNCHANGED <<registry, files, current, arrays, watching, metrics>>
  /\ LoaderUnchanged

\* fs.readdir settles: lines 37-41, or 37-53 when no name passes line 40;
\* a rejection is caught and read as an empty directory
ReaddirSettles(r, rejected) ==
  /\ loads[r].pc = "readdir"
  /\ LET names == IF rejected THEN <<>> ELSE Listing(files.dir)
         a == NewArray(arrays, current)
         arrs == IF a \in DOMAIN arrays THEN arrays
                 ELSE [k \in DOMAIN arrays \cup {a} |-> IF k = a THEN <<>> ELSE arrays[k]]
         l == [loads[r] EXCEPT !.listing = names, !.arr = a]
     IN LoopFrom(r, l, arrs, NextFile(names, 1))
  /\ UNCHANGED files
  /\ LoaderUnchanged

\* fs.readFile settles for the file at hand: lines 41-52, then on to the
\* next await or to line 53; a throw ends loadAll with nothing assigned, and
\* only the load that start() awaits has a catch (server.ts lines 18-19)
ReadFileSettles(r) ==
  /\ loads[r].pc = "readFile"
  /\ LET l == loads[r]
         f == l.listing[l.idx]
         got == IF f \in DOMAIN files.dir THEN Accepted(f, files.dir[f]) ELSE None
     IN IF got = None
          THEN /\ loads' = [loads EXCEPT ![r].pc = "failed"]
               /\ metrics' = IF l.start THEN [metrics EXCEPT !.toolLoadErrors = @ + 1]
                                        ELSE metrics
               /\ UNCHANGED <<registry, current, arrays, watching>>
          ELSE LoopFrom(r, [l EXCEPT !.reads = Append(@, got[1])],
                        [arrays EXCEPT ![l.arr] = @ \o got[1]], NextFile(l.listing, l.idx + 1))
  /\ UNCHANGED files
  /\ LoaderUnchanged

\* the callback of an add, change or unlink event
WatcherEvent == Rebuild(MaxLoads)

\* someone writes or replaces a file of the directory
WriteFile(f, content) ==
  /\ files.changes < MaxChanges
  /\ IF f \in DOMAIN files.dir THEN files.dir[f] # content ELSE TRUE
  /\ files' = [dir |-> [k \in DOMAIN files.dir \cup {f} |-> IF k = f THEN content ELSE files.dir[k]],
               changes |-> files.changes + 1]
  /\ UNCHANGED <<registry, current, arrays, loads, watching, metrics>>
  /\ LoaderUnchanged

\* someone removes a file of the directory
Unlink(f) ==
  /\ files.changes < MaxChanges
  /\ f \in DOMAIN files.dir
  /\ files' = [dir |-> [k \in DOMAIN files.dir \ {f} |-> files.dir[k]],
               changes |-> files.changes + 1]
  /\ UNCHANGED <<registry, current, arrays, loads, watching, metrics>>
  /\ LoaderUnchanged

\* directories the loader may be started on
Directories ==
  {[f \in S |-> IF f = "notes.txt" THEN FileGarbage ELSE c[f]] :
     S \in SUBSET Range(FileNames), c \in [{"a.yaml", "b.json"} -> {FileA, FileRegistry, FileBadTool}]}

\* new FileRegistryLoader(dir): lines 15-18
InitLoader(dir) ==
  /\ files = [dir |-> dir, changes |-> 0]
  /\ current = InitialSnapshot
  /\ arrays = [a \in {0} |-> <<>>]
  /\ registry = List(arrays, current)
  /\ loads = <<>>
  /\ watching = FALSE

LoaderInit ==
  /\ \E dir \in Directories : InitLoader(dir)
  /\ env = [OFFLINE |-> None, K |-> None]
  /\ InitStore(None)
  /\ plans = [p \in {"p1"} |-> IdlePlan]
  /\ requests = [p \in {"p1"} |-> NoRequest]
  /\ InitPolicy(NoPolicy)
  /\ storeLog = NoStoreLog
  /\ nextId = 1
  /\ now = 0
  /\ metrics = ZeroMetrics

LoaderNext ==
  \/ Start
  \/ WatcherEvent
  \/ \E r \in DOMAIN loads, rejected \in BOOLEAN : ReaddirSettles(r, rejected)
  \/ \E r \in DOMAIN loads : ReadFileSettles(r)
  \/ \E f \in {"a.yaml", "b.json"}, content \in FileContents : WriteFile(f, content)
  \/ \E f \in Range(FileNames) : Unlink(f)
  \/ Tick /\ UNCHANGED auxVars

LoaderSpec == LoaderInit /\ [][LoaderNext]_vars

\* the loader with room for the rebuilds of two watched events
OverlapNext ==
  \/ Start
  \/ Rebuild(MaxOverlap)
  \/ \E r \in DOMAIN loads, rejected \in BOOLEAN : ReaddirSettles(r, rejected)
  \/ \E r \in DOMAIN loads : ReadFileSettles(r)
  \/ \E f \in {"a.yaml", "b.json"}, content \in FileContents : WriteFile(f, content)
  \/ \E f \in Range(FileNames) : Unlink(f)

OverlapSpec == LoaderInit /\ [][OverlapNext]_vars

\* ------------------------------------------- plans beside a running loader
\* requests for either capability, executing or not, without a deadline
ReloadContexts ==
  [capability : {Some("c"), Some("d")}, execute : {None, Some(FALSE)}, timeout_ms : {None}]

ReloadInit ==
  /\ \E dir \in {[f \in {"a.yaml"} |-> FileA],
                  [f \in {"a.yaml", "b.json"} |-> IF f = "a.yaml" THEN FileA ELSE FileRegistry]} :
       InitLoader(dir)
  /\ env = [OFFLINE |-> None, K |-> Some("1")]
  /\ InitStore(None)
  /\ plans = [p \in {"p1"} |-> IdlePlan]
  /\ requests = [p \in {"p1"} |-> NoRequest]
  /\ InitPolicy(NoPolicy)
  /\ storeLog = NoStoreLog
  /\ nextId = 1
  /\ now = 0
  /\ metrics = ZeroMetrics

ReloadNext ==
  \/ Start
  \/ WatcherEvent
  \/ \E r \in DOMAIN loads, rejected \in BOOLEAN : ReaddirSettles(r, rejected)
  \/ \E r \in DOMAIN loads : ReadFileSettles(r)
  \/ \E f \in {"a.yaml", "b.json"}, content \in {FileA, FileRegistry, FileBadTool} :
       WriteFile(f, content)
  \/ \E f \in Range(FileNames) : Unlink(f)
  \/ \E p \in DOMAIN plans, c \in ReloadContexts : PlanNoCandidates(p, c) /\ UNCHANGED auxVars
  \/ \E p \in DOMAIN plans, c \in ReloadContexts : PlanOnly(p, c) /\ UNCHANGED auxVars
  \/ \E p \in DOMAIN plans, c \in ReloadContexts : PlanExecute(p, c) /\ UNCHANGED auxVars
  \/ \E p \in DOMAIN plans, out \in ExecOutcomes : ExecSettles(p, out) /\ UNCHANGED auxVars

ReloadSpec == ReloadInit /\ [][ReloadNext]_vars

\* Either one caller, any snapshot and environment and a default store, or
\* concurrent callers sharing a small store over one snapshot.
Init ==
  /\ \/ /\ registry \in Snapshots
        /\ env \in Envs
        /\ InitStore(None)
        /\ plans = [p \in {"p1"} |-> IdlePlan]
     \/ /\ registry = <<Tools.a>>
        /\ env = [OFFLINE |-> None, K |-> None]
        /\ \E opts \in TraceStoreOptions \ {None} : InitStore(opts)
        /\ plans = [p \in Plans |-> IdlePlan]
  /\ nextId = 1
  /\ now = 0
  /\ metrics = ZeroMetrics
  /\ InitPolicy(NoPolicy)
  /\ requests = [p \in DOMAIN plans |-> NoRequest]
  /\ storeLog = NoStoreLog
  /\ FixedRegistry

Next ==
  \/ \E p \in DOMAIN plans, c \in PlanContexts : PlanInvalid(p, c) /\ UNCHANGED auxVars
  \/ \E p \in DOMAIN plans, c \in PlanContexts : PlanNoCandidates(p, c) /\ UNCHANGED auxVars
  \/ \E p \in DOMAIN plans, c \in PlanContexts : PlanOnly(p, c) /\ UNCHANGED auxVars
  \/ \E p \in DOMAIN plans, c \in PlanContexts : PlanExecute(p, c) /\ UNCHANGED auxVars
  \/ \E p \in DOMAIN plans, out \in ExecOutcomes : ExecSettles(p, out) /\ UNCHANGED auxVars
  \/ \E p \in DOMAIN plans : DeadlineFires(p) /\ UNCHANGED auxVars
  \/ \E id \in DOMAIN traces : TraceGet(id) /\ UNCHANGED auxVars
  \/ Tick /\ UNCHANGED auxVars

Spec == Init /\ [][Next]_vars

\* ------------------------------------------- plans over a fair executor
\* the executor settles an outstanding call of plan p
Settles(p) ==
  /\ p \in DOMAIN plans
  /\ \E out \in ExecOutcomes : ExecSettles(p, out) /\ UNCHANGED auxVars

\* one plan() call over any snapshot, every gate of the environment open
LiveInit ==
  /\ registry \in Snapshots
  /\ env = [OFFLINE |-> None, K |-> Some("1")]
  /\ InitStore(None)
  /\ plans = [p \in {"p1"} |-> IdlePlan]
  /\ requests = [p \in {"p1"} |-> NoRequest]
  /\ InitPolicy(NoPolicy)
  /\ storeLog = NoStoreLog
  /\ FixedRegistry
  /\ nextId = 1
  /\ now = 0
  /\ metrics = ZeroMetrics

LiveNext ==
  \/ \E p \in DOMAIN plans, c \in PlanContexts : PlanInvalid(p, c) /\ UNCHANGED auxVars
  \/ \E p \in DOMAIN plans, c \in PlanContexts : PlanNoCandidates(p, c) /\ UNCHANGED auxVars
  \/ \E p \in DOMAIN plans, c \in PlanContexts : PlanOnly(p, c) /\ UNCHANGED auxVars
  \/ \E p \in DOMAIN plans, c \in PlanContexts : PlanExecute(p, c) /\ UNCHANGED auxVars
  \/ \E p \in DOMAIN plans : Settles(p)
  \/ \E p \in DOMAIN plans : DeadlineFires(p) /\ UNCHANGED auxVars
  \/ Tick /\ UNCHANGED auxVars

\* IToolExecutor.execute returns a promise; here each one eventually settles
LiveSpec == LiveInit /\ [][LiveNext]_vars /\ \A p \in Plans : WF_vars(Settles(p))

\* ------------------------------------------------- the scorer on its own
\* SimpleScorer.score takes any Tool: p95_ms and cost_estimate are optional
\* numbers. Two tools of capability "c", with every combination of the values
\* below, are ranked by a plan that does not execute.
ScoreTool(id, p95, cost) ==
  [id |-> id, capabilities |-> {"c"},
   sla |-> IF p95 = None THEN None ELSE Some([p95_ms |-> p95[1]]),
   cost_estimate |-> cost, requiresNetwork |-> FALSE, env |-> {}]

ScoreInit ==
  /\ LET P95s == {None, Some(1), Some(200), Some(3000), Some(5000), Some(6000)}
         Costs == {None, Some(Fin(0)), Some(Tiny), Some(Fin(1)), Some(Fin(2)),
                   Some(PosInfinity), Some(NegInfinity)}
     IN \E pa \in P95s, pb \in P95s, ca \in Costs, cb \in Costs :
          registry = <<ScoreTool("a", pa, ca), ScoreTool("b", pb, cb)>>
  /\ env = [OFFLINE |-> None, K |-> None]
  /\ InitStore(None)
  /\ plans = [p \in {"p1"} |-> IdlePlan]
  /\ requests = [p \in {"p1"} |-> NoRequest]
  /\ InitPolicy(NoPolicy)
  /\ storeLog = NoStoreLog
  /\ nextId = 1
  /\ now = 0
  /\ metrics = ZeroMetrics
  /\ FixedRegistry

ScoreNext ==
  \E p \in DOMAIN plans :
    PlanOnly(p, [capability |-> Some("c"), execute |-> Some(FALSE), timeout_ms |-> None])
      /\ UNCHANGED auxVars

ScoreSpec == ScoreInit /\ [][ScoreNext]_vars

\* ------------------------------------------------------------ properties
Res(p) == plans[p].result[1]

Returned(p) == plans[p].pc = "done"

Stored(p) == plans[p].traceId \in DOMAIN traces

EventTypes(p) ==
  [i \in DOMAIN traces[plans[p].traceId].events |-> traces[plans[p].traceId].events[i].type]

LastOf(s) == s[Len(s)]

ReturnedStatus(o, status) == o.kind = "return" /\ o.status = status

\* the attempt ended in failure: returned `failure`, or threw before the deadline fired
EndedInFailure(o) == ReturnedStatus(o, "failure") \/ (o.kind = "throw" /\ ~o.aborted)

ExecutionIs(p, status, error) ==
  Res(p).execution = Some([status |-> status, error |-> error])

C3_AllCandidatesFailed ==
  \A p \in DOMAIN plans :
    (/\ plans[p].outcomes # <<>>
     /\ \A k \in DOMAIN plans[p].outcomes :
          EndedInFailure(plans[p].outcomes[k]) /\ ~plans[p].outcomes[k].aborted) =>
      IF Len(plans[p].outcomes) < Len(plans[p].scored)
        THEN /\ plans[p].pc = "awaiting"
             /\ Len(plans[p].calls) = Len(plans[p].outcomes) + 1
        ELSE /\ Returned(p)
             /\ ExecutionIs(p, "failure", "ALL_CANDIDATES_FAILED")
             /\ Res(p).selected = None
             /\ plans[p].calls = [i \in DOMAIN plans[p].scored |-> plans[p].scored[i].toolId]

C3_Witness ==
  \E p \in DOMAIN plans :
    /\ Returned(p)
    /\ Len(plans[p].scored) >= 2
    /\ Len(plans[p].outcomes) = Len(plans[p].scored)
    /\ \A k \in DOMAIN plans[p].outcomes : ReturnedStatus(plans[p].outcomes[k], "failure")
    /\ ~plans[p].aborted
    /\ ExecutionIs(p, "failure", "ALL_CANDIDATES_FAILED")

\* C4: a candidate whose call returned `success` with an output that fails
\* the post-check is not selected, and a `post_fallback` event is recorded
\* for it.
C4_PostCheckFallback ==
  \A p \in DOMAIN plans : \A k \in DOMAIN plans[p].outcomes :
    (ReturnedStatus(plans[p].outcomes[k], "success") /\ ~plans[p].outcomes[k].outputOk) =>
      /\ Res(p).selected # Some([toolId |-> plans[p].scored[k].toolId])
      /\ \E i \in DOMAIN plans[p].recs : plans[p].recs[i] = "post_fallback"

\* C5: in the result of an executing plan `selected` is set exactly when
\* execution.status = 'success', and then it names the candidate of the last
\* executor call, which returned success, and occurs in result.candidates.
C5_SelectedIffSuccess ==
  \A p \in DOMAIN plans :
    (Returned(p) /\ plans[p].execute) =>
      /\ Res(p).execution # None
      /\ Res(p).selected # None <=> Res(p).execution[1].status = "success"
      /\ Res(p).selected # None =>
           LET k == Len(plans[p].outcomes) IN
           /\ k >= 1
           /\ ReturnedStatus(plans[p].outcomes[k], "success")
           /\ plans[p].calls[k] = Res(p).selected[1].toolId
           /\ \E i \in DOMAIN Res(p).candidates :
                Res(p).candidates[i].toolId = Res(p).selected[1].toolId

C5_Witness ==
  \E p \in DOMAIN plans :
    /\ Returned(p) /\ plans[p].execute
    /\ Len(plans[p].outcomes) = 2
    /\ Res(p).selected = Some([toolId |-> Res(p).candidates[2].toolId])
    /\ Res(p).candidates[1].toolId # Res(p).candidates[2].toolId

\* x >= y for scores, -Infinity being below every finite score
ScoreGeq(x, y) == IF x.fin /\ y.fin THEN x.v >= y.v ELSE ~y.fin

PositionIn(tools, id) == CHOOSE i \in DOMAIN tools : tools[i].id = id

\* C6: result.candidates is in non-increasing score order, candidates of
\* equal score are in the order of the registry snapshot, and a candidate
\* scored -Infinity comes after every finite-scored one.
C6_CandidatesSorted ==
  \A p \in DOMAIN plans :
    Returned(p) =>
      \A i, j \in DOMAIN Res(p).candidates :
        i < j =>
          LET x == Res(p).candidates[i]
              y == Res(p).candidates[j]
          IN /\ ScoreGeq(x.score, y.score)
             /\ x.score = y.score =>
                  PositionIn(plans[p].tools, x.toolId) < PositionIn(plans[p].tools, y.toolId)
             /\ ~x.score.fin => ~y.score.fin

C6_Witness ==
  \E p \in DOMAIN plans :
    /\ Returned(p)
    /\ Len(Res(p).candidates) = 2
    /\ Res(p).candidates[1].score.fin
    /\ ~Res(p).candidates[2].score.fin
    /\ plans[p].tools[1].id = Res(p).candidates[2].toolId

\* what TraceStore.get(traceId of p) returns now
Resolved(p) == TSget(Store, plans[p].traceId, ttlMs, now).trace

ResolvesToRequest(p) ==
  /\ Resolved(p) # None
  /\ Resolved(p)[1].events # <<>>
  /\ Resolved(p)[1].events[1].type = "request"

\* C7 as stated: whenever a plan returns within ttlMs of creating its trace,
\* its traceId resolves to a trace whose first event is `request`.
C7_TraceResolves ==
  [][\A p \in DOMAIN plans :
       (plans[p].pc # "done" /\ plans'[p].pc = "done"
          /\ now' - plans'[p].startedAt <= ttlMs) => ResolvesToRequest(p)']_vars

\* C7 amended: within ttlMs of its creation, and while fewer than maxTraces
\* traces have been created after it, the traceId of every returned plan
\* resolves to a trace whose first event is `request`; and whenever it
\* resolves at all, the first event is `request`.
C7_TraceResolvesUnlessEvicted ==
  \A p \in DOMAIN plans :
    Returned(p) =>
      /\ (now - plans[p].startedAt <= ttlMs /\ nextId - 1 - plans[p].traceId < maxTraces) =>
           ResolvesToRequest(p)
      /\ Resolved(p) # None => ResolvesToRequest(p)

C7_Witness ==
  \E p, q \in DOMAIN plans :
    /\ Returned(p)
    /\ plans[q].pc = "awaiting"
    /\ plans[q].traceId > plans[p].traceId
    /\ maxTraces = 2
    /\ now > plans[p].startedAt
    /\ ResolvesToRequest(p)

\* C8: a plan-only call with at least one candidate never invokes the
\* executor, records no `attempt` event, returns no `execution`, and selects
\* the first entry of result.candidates.
C8_PlanOnly ==
  \A p \in DOMAIN plans :
    (plans[p].pc # "idle" /\ ~plans[p].execute /\ Res(p).candidates # <<>>) =>
      /\ Returned(p)
      /\ plans[p].calls = <<>>
      /\ plans[p].outcomes = <<>>
      /\ \A i \in DOMAIN plans[p].recs : plans[p].recs[i] # "attempt"
      /\ Stored(p) => \A i \in DOMAIN EventTypes(p) : EventTypes(p)[i] # "attempt"
      /\ Res(p).execution = None
      /\ Res(p).selected = Some([toolId |-> Res(p).candidates[1].toolId])

C8_Witness ==
  \E p \in DOMAIN plans :
    /\ Returned(p) /\ ~plans[p].execute
    /\ Len(Res(p).candidates) = 2
    /\ Res(p).candidates[1].toolId # Res(p).candidates[2].toolId
    /\ plans[p].tools[1].id = Res(p).candidates[2].toolId

\* C9: a plan whose capability is missing or empty has returned
\* {failure, INPUT_INVALID} with empty candidates and no `selected`, and has
\* neither read the registry, nor scored a tool, nor invoked the executor.
C9_InputInvalid ==
  \A p \in DOMAIN plans :
    (plans[p].pc # "idle" /\ plans[p].capability = "") =>
      /\ Returned(p)
      /\ ExecutionIs(p, "failure", "INPUT_INVALID")
      /\ Res(p).candidates = <<>>
      /\ Res(p).selected = None
      /\ Res(p).capability = ""
      /\ plans[p].listCalls = 0
      /\ plans[p].scoreCalls = <<>>
      /\ plans[p].calls = <<>>

C9_Witness ==
  \E p \in DOMAIN plans :
    /\ Returned(p)
    /\ plans[p].capability = ""
    /\ registry # <<>>
    /\ plans[p].recs = <<"request", "failure">>

\* the two gates, as the claim states them
PassesGates(tool, capability) ==
  /\ capability \in tool.capabilities
  /\ ~(tool.requiresNetwork /\ env.OFFLINE # None)
  /\ \A k \in tool.env : env[k] # None /\ env[k] # Some("")

\* C10: when no tool of the snapshot passes both gates, the plan has returned
\* {failure, NO_CANDIDATES} with empty candidates and no `selected`, has
\* recorded `no_candidates`, and has neither scored a tool nor invoked the
\* executor, in executing and in plan-only mode.
C10_NoCandidates ==
  \A p \in DOMAIN plans :
    (/\ plans[p].pc # "idle"
     /\ plans[p].capability # ""
     /\ \A i \in DOMAIN plans[p].tools : ~PassesGates(plans[p].tools[i], plans[p].capability)) =>
      /\ Returned(p)
      /\ ExecutionIs(p, "failure", "NO_CANDIDATES")
      /\ Res(p).candidates = <<>>
      /\ Res(p).selected = None
      /\ plans[p].recs = <<"request", "no_candidates", "failure">>
      /\ Stored(p) => EventTypes(p) = <<"request", "no_candidates", "failure">>
      /\ plans[p].scoreCalls = <<>>
      /\ plans[p].calls = <<>>

C10_Witness ==
  \E p \in DOMAIN plans :
    /\ Returned(p)
    /\ ExecutionIs(p, "failure", "NO_CANDIDATES")
    /\ \E i \in DOMAIN plans[p].tools :
         /\ plans[p].capability \in plans[p].tools[i].capabilities
         /\ plans[p].tools[i].requiresNetwork
    /\ ~plans[p].execute

\* C11: in a plan with timeout_ms > 0, an attempt that returned `failure`
\* with the overall deadline already fired is the last executor call of the
\* plan, and the plan has returned {timeout, overall-timeout} with no
\* `selected`, also when the failing attempt was that of the last candidate.
C11_DeadlineAfterFailure ==
  \A p \in DOMAIN plans : \A k \in DOMAIN plans[p].outcomes :
    (ReturnedStatus(plans[p].outcomes[k], "failure") /\ plans[p].outcomes[k].aborted) =>
      /\ plans[p].timeout_ms # None /\ plans[p].timeout_ms[1] > 0
      /\ Returned(p)
      /\ k = Len(plans[p].outcomes)
      /\ Len(plans[p].calls) = k
      /\ ExecutionIs(p, "timeout", "overall-timeout")
      /\ Res(p).selected = None
      /\ LastOf(plans[p].recs) = "timeout"

C11_Witness ==
  \E p \in DOMAIN plans :
    /\ Returned(p)
    /\ Len(plans[p].scored) = 2
    /\ Len(plans[p].outcomes) = 2
    /\ ReturnedStatus(plans[p].outcomes[1], "failure") /\ ~plans[p].outcomes[1].aborted
    /\ ReturnedStatus(plans[p].outcomes[2], "failure") /\ plans[p].outcomes[2].aborted
    /\ ExecutionIs(p, "timeout", "overall-timeout")

\* C12: an executor call that returned `success` after the overall deadline
\* had fired ends the plan with execution.status = 'success' and the called
\* candidate selected.
C12_SuccessBeatsDeadline ==
  \A p \in DOMAIN plans : \A k \in DOMAIN plans[p].outcomes :
    (ReturnedStatus(plans[p].outcomes[k], "success") /\ plans[p].outcomes[k].aborted) =>
      /\ Returned(p)
      /\ Res(p).execution # None
      /\ Res(p).execution[1].status = "success"
      /\ Res(p).selected = Some([toolId |-> plans[p].calls[k]])
      /\ LastOf(plans[p].recs) = "success"

C12_Witness ==
  \E p \in DOMAIN plans :
    /\ Returned(p)
    /\ plans[p].timer = "fired"
    /\ ReturnedStatus(LastOf(plans[p].outcomes), "success")
    /\ LastOf(plans[p].outcomes).aborted
    /\ Res(p).execution[1].status = "success"

\* C13: a plan whose executor threw has not rejected (it is awaiting a later
\* call or has returned a result with an execution); a throw with the abort
\* signal fired is the last call and yields status `timeout` with a `timeout`
\* event right after its `attempt` (no fallback); a throw with the signal not
\* fired records a fallback and, when a candidate remains, is followed by the
\* call of the next-ranked candidate.
C13_ThrowNormalized ==
  \A p \in DOMAIN plans : \A k \in DOMAIN plans[p].outcomes :
    plans[p].outcomes[k].kind = "throw" =>
      /\ plans[p].pc \in {"awaiting", "done"}
      /\ Returned(p) => Res(p).execution # None
      /\ plans[p].outcomes[k].aborted =>
           /\ Returned(p)
           /\ k = Len(plans[p].outcomes)
           /\ Len(plans[p].calls) = k
           /\ Res(p).execution[1].status = "timeout"
           /\ Res(p).selected = None
           /\ LastOf(plans[p].recs) = "timeout"
           /\ plans[p].recs[Len(plans[p].recs) - 1] = "attempt"
      /\ ~plans[p].outcomes[k].aborted =>
           /\ \E i \in DOMAIN plans[p].recs : plans[p].recs[i] = "fallback"
           /\ k < Len(plans[p].scored) =>
                /\ Len(plans[p].calls) >= k + 1
                /\ plans[p].calls[k + 1] = plans[p].scored[k + 1].toolId
           /\ (k = Len(plans[p].scored)) =>
                Returned(p) /\ ExecutionIs(p, "failure", "ALL_CANDIDATES_FAILED")

C13_Witness ==
  \E p \in DOMAIN plans :
    /\ Returned(p)
    /\ Len(plans[p].outcomes) = 2
    /\ plans[p].outcomes[1].kind = "throw" /\ ~plans[p].outcomes[1].aborted
    /\ plans[p].outcomes[2].kind = "throw" /\ plans[p].outcomes[2].aborted
    /\ Res(p).execution[1].status = "timeout"

\* the rules of the latest check as the service resolved them
CheckedRules == rulesFor(doc, lastCheck.tenant)

OutsideAllowList(rules, cap) ==
  rules.allowCapabilities # None /\ cap \notin rules.allowCapabilities[1]

OnDenyList(rules, cap) ==
  rules.denyCapabilities # None /\ cap \in rules.denyCapabilities[1]

OutsideEveryWindow(rules, t) ==
  /\ rules.timeWindows # None
  /\ rules.timeWindows[1].allow # <<>>
  /\ \A i \in DOMAIN rules.timeWindows[1].allow : ~inWindow(t, rules.timeWindows[1].allow[i])

HasSchema(schemas, cap) == schemas # None /\ cap \in DOMAIN schemas[1]

\* C14: the decision of a preCheck call is the denial of the first rejecting
\* rule in the order allow-list, deny-list, time window, pre-schema:
\* CAPABILITY_DENIED for a capability outside the allow-list or on the
\* deny-list whatever the later rules say, TIME_DENIED outside every window
\* when both lists pass, INPUT_INVALID only when the three earlier rules pass
\* and a pre-schema exists, and allow when no rule rejects.
C14_PreCheckOrder ==
  lastCheck.kind = "pre" =>
    LET rules == CheckedRules
        cap == lastCheck.capability
        dec == lastCheck.decision
        listed == OutsideAllowList(rules, cap) \/ OnDenyList(rules, cap)
        late == OutsideEveryWindow(rules, lastCheck.now)
    IN /\ OutsideAllowList(rules, cap) =>
            dec = Deny("CAPABILITY_DENIED", "Not in allowCapabilities")
       /\ (~OutsideAllowList(rules, cap) /\ OnDenyList(rules, cap)) =>
            dec = Deny("CAPABILITY_DENIED", "Listed in denyCapabilities")
       /\ (~listed /\ late) => (~dec.allow /\ dec.code = "TIME_DENIED")
       /\ (~dec.allow /\ dec.code = "INPUT_INVALID") =>
            (~listed /\ ~late /\ HasSchema(rules.preSchemas, cap))
       /\ (~listed /\ ~late /\ ~HasSchema(rules.preSchemas, cap)) => dec = Allow
       /\ (~listed /\ ~late) => (dec.allow \/ dec.code = "INPUT_INVALID")

\* a capability outside the allow-list, at a moment outside every window,
\* with an input its pre-schema rejects
C14_Witness ==
  /\ lastCheck.kind = "pre"
  /\ OutsideAllowList(CheckedRules, lastCheck.capability)
  /\ OutsideEveryWindow(CheckedRules, lastCheck.now)
  /\ HasSchema(CheckedRules.preSchemas, lastCheck.capability)
  /\ ~Validate(CheckedRules.preSchemas[1][lastCheck.capability], lastCheck.data)
  /\ lastCheck.decision.code = "CAPABILITY_DENIED"

\* the precedence tenants[tenant], else default, else the empty policy
ResolvedPolicy(d, tenant) ==
  IF tenant # None /\ d.tenants # None /\ tenant[1] \in DOMAIN d.tenants[1]
    THEN d.tenants[1][tenant[1]]
  ELSE IF d.default # None THEN d.default[1]
  ELSE EmptyPolicy

\* a fresh service whose only policy is pol
Only(pol) == [default |-> Some(pol), tenants |-> None]

\* C15: every preCheck and postCheck decision is the one that the policy
\* tenants[tenant], else default, else the empty policy, gives on its own.
C15_TenantPrecedence ==
  /\ lastCheck.kind = "pre" =>
       lastCheck.decision =
         preCheck(Only(ResolvedPolicy(doc, lastCheck.tenant)), EmptyCompiled,
                  [tenant |-> None, capability |-> lastCheck.capability,
                   input |-> lastCheck.data, now |-> lastCheck.now]).decision
  /\ lastCheck.kind = "post" =>
       lastCheck.decision =
         postCheck(Only(ResolvedPolicy(doc, lastCheck.tenant)), EmptyCompiled,
                   [tenant |-> None, capability |-> lastCheck.capability,
                    output |-> lastCheck.data]).decision

\* C16: under rules whose timeWindows.allow is non-empty and holds only
\* malformed specs, a request that passes the capability lists is denied
\* with TIME_DENIED.
C16_MalformedWindowNeverMatches ==
  (/\ lastCheck.kind = "pre"
   /\ CheckedRules.timeWindows # None
   /\ CheckedRules.timeWindows[1].allow # <<>>
   /\ \A i \in DOMAIN CheckedRules.timeWindows[1].allow :
        CheckedRules.timeWindows[1].allow[i] \in MalformedWindows
   /\ ~OutsideAllowList(CheckedRules, lastCheck.capability)
   /\ ~OnDenyList(CheckedRules, lastCheck.capability)) =>
    (~lastCheck.decision.allow /\ lastCheck.decision.code = "TIME_DENIED")

\* C17: postCheck fails with POST_CONDITION_FAILED exactly when the resolved
\* rules have a post-schema for the capability and the output violates it,
\* and passes otherwise.
C17_PostCheck ==
  lastCheck.kind = "post" =>
    LET rules == CheckedRules
        cap == lastCheck.capability
        violates == /\ HasSchema(rules.postSchemas, cap)
                    /\ ~Validate(rules.postSchemas[1][cap], lastCheck.data)
    IN /\ violates => (~lastCheck.decision.pass /\ lastCheck.decision.code = "POST_CONDITION_FAILED")
       /\ ~violates => lastCheck.decision = Pass

\* C18: a /plan request that the pre-check denied has never reached the
\* planner (no trace, no registry read, no score, no executor call: its plan
\* is untouched, and traces exist only for the requests that were allowed),
\* and its reply is the 403 denial {failure, POLICY_DENIED} carrying the
\* policy code, which is CAPABILITY_DENIED when the capability is outside
\* the allow-list or on the deny-list.
C18_DeniedBeforePlanner ==
  /\ \A p \in DOMAIN requests :
       (requests[p].pre # None /\ ~requests[p].pre[1].allow) =>
         /\ plans[p] = IdlePlan
         /\ requests[p].reply # None
         /\ requests[p].reply[1].code = 403
         /\ requests[p].reply[1].body.traceId = None
         /\ requests[p].reply[1].body.candidates = <<>>
         /\ requests[p].reply[1].body.execution.status = "failure"
         /\ requests[p].reply[1].body.execution.error = "POLICY_DENIED"
         /\ requests[p].reply[1].body.execution.detail = requests[p].pre[1].code
         /\ requests[p].pre[1].detail \in {"Not in allowCapabilities", "Listed in denyCapabilities"} =>
              requests[p].reply[1].body.execution.detail = "CAPABILITY_DENIED"
  /\ nextId - 1 = Cardinality({p \in DOMAIN plans : plans[p].pc # "idle"})
  /\ metrics.traceCreatedTotal = nextId - 1
  /\ \A p \in DOMAIN plans :
       plans[p].pc # "idle" => (requests[p].pre # None /\ requests[p].pre[1].allow)

\* one request denied for its capability while another is being executed
C18_Witness ==
  \E p, q \in DOMAIN requests :
    /\ requests[p].pre # None
    /\ requests[p].pre[1] = Deny("CAPABILITY_DENIED", "Listed in denyCapabilities")
    /\ requests[p].reply # None
    /\ plans[q].pc = "awaiting"
    /\ nextId = 2

\* what get(id) returns now
Gets(id) == TSget(Store, id, ttlMs, now).trace

\* C19: get(id) returns absent for every trace created more than ttlMs ago,
\* whatever was recorded on it since, and for every id for which a get has
\* already returned absent.
C19_ExpiredStaysAbsent ==
  /\ \A id \in DOMAIN storeLog.created :
       now - storeLog.created[id] > ttlMs => Gets(id) = None
  /\ \A id \in storeLog.absent : Gets(id) = None

\* a trace that was recorded on after its creation, outlived its TTL and was
\* then reported absent
C19_Witness ==
  \E id \in DOMAIN storeLog.created :
    /\ id \in storeLog.recorded
    /\ id \in storeLog.absent
    /\ now - storeLog.created[id] > ttlMs
    /\ nextId - 1 - id < maxTraces

\* what get(id) returns after the step
GetsAfter(id) == TSget([traces |-> traces', order |-> order'], id, ttlMs', now').trace

\* the last n elements of s
LastN(s, n) == SubSeq(s, Len(s) - Min(n, Len(s)) + 1, Len(s))

Unexpired(ord) == SelectSeq(ord, LAMBDA id : now - traces[id].createdAt <= ttlMs)

\* C20: every create() leaves in the store exactly the last maxTraces, in
\* creation order, of the unexpired traces it held followed by the new one
\* (so at most maxTraces traces, the new one among them, the oldest
\* removed); with maxTraces = 1 only the latest trace is stored; and with
\* maxTraces = 2, after the third create, the first id is absent and the
\* second and third are returned by get while their TTL has not run out.
C20_CapacityEviction ==
  [][nextId' = nextId + 1 =>
       /\ order' = LastN(Unexpired(order) \o <<nextId>>, maxTraces)
       /\ DOMAIN traces' = {order'[i] : i \in DOMAIN order'}
       /\ Len(order') <= maxTraces
       /\ nextId \in DOMAIN traces'
       /\ GetsAfter(nextId) # None
       /\ maxTraces = 1 => DOMAIN traces' = {nextId}
       /\ (maxTraces = 2 /\ nextId = 3) =>
            /\ GetsAfter(1) = None
            /\ \A id \in {2, 3} : (now - storeLog'.created[id] <= ttlMs) => GetsAfter(id) # None
  ]_vars

C20_Witness ==
  /\ maxTraces = 2
  /\ nextId = 4
  /\ order = <<2, 3>>
  /\ Gets(2) # None /\ Gets(3) # None /\ Gets(1) = None
  /\ now - storeLog.created[1] <= ttlMs

\* the tools a rebuild has pushed, file after file
RECURSIVE Flatten(_)
Flatten(ss) == IF ss = <<>> THEN <<>> ELSE Head(ss) \o Flatten(Tail(ss))

RegistryFilesOf(listing) == {j \in DOMAIN listing : IsRegistryFile(listing[j])}

\* C21: a rebuild that fails publishes nothing: the step in which it fails
\* leaves the snapshot (its array, its tools, its updatedAt) as it was, and
\* the array holding the tools it had read, valid files before the invalid
\* one included, is never the array readers are given.
C21_RebuildFailsAsUnit ==
  [][\A r \in DOMAIN loads' :
       loads'[r].pc = "failed" =>
         /\ current'.tools # loads'[r].arr
         /\ (r \in DOMAIN loads /\ loads[r].pc # "failed") =>
              /\ current' = current
              /\ registry' = registry
              /\ List(arrays', current') = List(arrays, current)
    ]_vars

\* a reload has failed on its second file after a first valid one, while an
\* earlier rebuild's snapshot is the published one
C21_Witness ==
  \E r \in DOMAIN loads :
    /\ loads[r].pc = "failed"
    /\ loads[r].reads # <<>>
    /\ Flatten(loads[r].reads) # <<>>
    /\ current.tools # 0
    /\ current.tools # loads[r].arr
    /\ registry # <<>>

\* C22: what getRegistry() returns is at every moment the initial empty
\* snapshot or the complete result of one finished rebuild (every registry
\* file of its listing read and accepted), and the array of every finished
\* rebuild, like the initial one, still holds exactly what it held when
\* it was published.
C22_AtomicSnapshot ==
  /\ registry = List(arrays, current)
  /\ arrays[0] = <<>>
  /\ \/ current = InitialSnapshot /\ registry = <<>>
     \/ \E r \in DOMAIN loads :
          /\ loads[r].pc = "done"
          /\ loads[r].arr = current.tools
          /\ registry = Flatten(loads[r].reads)
  /\ \A r \in DOMAIN loads :
       loads[r].pc = "done" =>
         /\ Len(loads[r].reads) = Cardinality(RegistryFilesOf(loads[r].listing))
         /\ arrays[loads[r].arr] = Flatten(loads[r].reads)

\* a rebuild is suspended on its second file with one tool pushed, while
\* readers are given the three tools of an earlier rebuild
C22_Witness ==
  \E r, q \in DOMAIN loads :
    /\ loads[r].pc = "readFile"
    /\ Len(arrays[loads[r].arr]) = 1
    /\ loads[q].pc = "done"
    /\ loads[q].arr = current.tools
    /\ Len(registry) = 3

\* the ranking plan() computes from a snapshot
RankingOf(tools, capability) ==
  ResultCandidates(SortScored([i \in DOMAIN Filter(tools, capability, env) |->
                     [toolId |-> Filter(tools, capability, env)[i].id,
                      score |-> score(Filter(tools, capability, env)[i]),
                      tool |-> Filter(tools, capability, env)[i]]]))

\* C23: a plan calls list() once; its candidates are the ranking of the
\* snapshot it read at entry, and the tool of its k-th executor call is the
\* k-th of them, a tool of that snapshot, whatever the loader has published
\* since.
C23_SnapshotPerPlan ==
  \A p \in DOMAIN plans :
    plans[p].pc # "idle" =>
      /\ plans[p].listCalls = 1
      /\ Res(p).candidates = RankingOf(plans[p].tools, plans[p].capability)
      /\ \A k \in DOMAIN plans[p].calls :
           /\ plans[p].calls[k] = Res(p).candidates[k].toolId
           /\ plans[p].scored[k].toolId = plans[p].calls[k]
           /\ plans[p].scored[k].tool \in Range(plans[p].tools)

\* a reload that dropped the second candidate was published while the plan
\* was suspended in its first executor call, and the plan went on to call
\* that candidate
C23_Witness ==
  \E p \in DOMAIN plans :
    /\ Len(plans[p].calls) >= 2
    /\ registry # plans[p].tools
    /\ \A i \in DOMAIN registry : registry[i].id # plans[p].calls[2]
    /\ \E r \in DOMAIN loads : loads[r].pc = "done" /\ loads[r].arr = current.tools /\ ~loads[r].start

\* the gates as stated: the capability is declared, the tool is not a
\* network tool while OFFLINE is set, and every key of preconditions.env
\* is present in the environment, whatever its value
StatedGates(tool, capability) ==
  /\ capability \in tool.capabilities
  /\ ~(tool.requiresNetwork /\ env.OFFLINE # None)
  /\ \A k \in tool.env : env[k] # None

\* C24: the candidates of a plan are exactly the tools of its snapshot that
\* declare the requested capability, are not network tools while OFFLINE is
\* present, and have every key of preconditions.env present in the process
\* environment, whatever the value of the key.
C24_CandidacyGates ==
  \A p \in DOMAIN plans :
    (plans[p].pc # "idle" /\ plans[p].capability # "") =>
      {Res(p).candidates[i].toolId : i \in DOMAIN Res(p).candidates}
        = {plans[p].tools[i].id : i \in {j \in DOMAIN plans[p].tools :
                                            StatedGates(plans[p].tools[j], plans[p].capability)}}

\* the `attempt` events of the stored trace of plan p
AttemptEvents(p) ==
  SelectSeq(traces[plans[p].traceId].events, LAMBDA ev : ev.type = "attempt")

\* C25: a plan has at most one executor call outstanding, and has one
\* exactly while it is suspended; its k-th call is for the k-th of
\* result.candidates, and the `attempt` events of its trace are, in order,
\* one per call with that toolId and rank k.
C25_SequentialRankOrder ==
  \A p \in DOMAIN plans :
    /\ Len(plans[p].calls) - Len(plans[p].outcomes) \in {0, 1}
    /\ (Len(plans[p].calls) - Len(plans[p].outcomes) = 1) <=> (plans[p].pc = "awaiting")
    /\ \A k \in DOMAIN plans[p].calls : plans[p].calls[k] = Res(p).candidates[k].toolId
    /\ Stored(p) =>
         AttemptEvents(p) = [k \in DOMAIN plans[p].calls |->
                              [type |-> "attempt", toolId |-> plans[p].calls[k], rank |-> k]]

\* the second call of a plan is outstanding, for a tool other than the first
C25_Witness ==
  \E p \in DOMAIN plans :
    /\ plans[p].pc = "awaiting"
    /\ Len(plans[p].calls) = 2
    /\ Len(plans[p].outcomes) = 1
    /\ plans[p].calls[1] # plans[p].calls[2]
    /\ Stored(p)
    /\ Len(AttemptEvents(p)) = 2

Count(s, x) == Cardinality({i \in DOMAIN s : s[i] = x})

FailedAttempts(p) ==
  Cardinality({k \in DOMAIN plans[p].outcomes : EndedInFailure(plans[p].outcomes[k])})

\* C26: a plan has recorded as many `fallback` events as it has had attempts
\* that returned `failure` or threw before the deadline fired, and
\* planner_fallbacks_total{capability} counts exactly those attempts over
\* the plans for that capability.
C26_FallbackPerFailure ==
  /\ \A p \in DOMAIN plans :
       /\ Count(plans[p].recs, "fallback") = FailedAttempts(p)
       /\ Stored(p) => Count(EventTypes(p), "fallback") = FailedAttempts(p)
  /\ \A cap \in Capabilities :
       metrics.plannerFallbacksTotal[cap] =
         Cardinality({pk \in (DOMAIN plans) \X (1..MaxTools) :
                        /\ plans[pk[1]].capability = cap
                        /\ pk[2] \in DOMAIN plans[pk[1]].outcomes
                        /\ EndedInFailure(plans[pk[1]].outcomes[pk[2]])})

\* the first attempt failed, the second succeeded, and the trace holds one
\* `fallback`
C26_Witness ==
  \E p \in DOMAIN plans :
    /\ Returned(p)
    /\ Len(plans[p].outcomes) = 2
    /\ EndedInFailure(plans[p].outcomes[1])
    /\ ReturnedStatus(plans[p].outcomes[2], "success")
    /\ ExecutionIs(p, "success", "")
    /\ Stored(p)
    /\ Count(EventTypes(p), "fallback") = 1
    /\ metrics.plannerFallbacksTotal[plans[p].capability] = 1

RECURSIVE FailedRounds(_)
FailedRounds(n) == IF n = 0 THEN <<>> ELSE <<"attempt", "fallback">> \o FailedRounds(n - 1)

\* C27: a plan that executed and returned success has recorded request,
\* scores, an `attempt` followed by a `fallback` for each failed call, the
\* `attempt` of the successful call, `selected`, and `success` last; its
\* stored trace lists the events in that order.
C27_SuccessTraceOrder ==
  \A p \in DOMAIN plans :
    (/\ Returned(p)
     /\ plans[p].execute
     /\ Res(p).execution # None
     /\ Res(p).execution[1].status = "success") =>
      LET expected == <<"request", "scores">> \o FailedRounds(Len(plans[p].calls) - 1)
                        \o <<"attempt", "selected", "success">>
      IN /\ plans[p].recs = expected
         /\ Stored(p) => EventTypes(p) = expected

\* a success after one failed attempt, its trace still stored
C27_Witness ==
  \E p \in DOMAIN plans :
    /\ Returned(p)
    /\ plans[p].execute
    /\ ExecutionIs(p, "success", "")
    /\ Len(plans[p].calls) = 2
    /\ Stored(p)
    /\ EventTypes(p) = <<"request", "scores", "attempt", "fallback",
                         "attempt", "selected", "success">>

TerminalTypes == {"success", "timeout", "failure"}

\* the events plan p has recorded end in its only terminal event, of the
\* type of the status it returned
OneTerminal(p, types) ==
  /\ Cardinality({i \in DOMAIN types : types[i] \in TerminalTypes}) = 1
  /\ LastOf(types) = Res(p).execution[1].status

\* C28: once plan() has returned an execution, the events it recorded hold
\* exactly one terminal event, the last one, of the type of
\* execution.status, and so does its trace while it is stored; from then on
\* nothing more is recorded on that trace.
C28_OneTerminalEvent ==
  [][\A p \in DOMAIN plans :
       /\ (Returned(p) /\ Res(p).execution # None)' =>
            /\ OneTerminal(p, plans[p].recs)'
            /\ Stored(p)' => (OneTerminal(p, EventTypes(p)) /\ EventTypes(p) = plans[p].recs)'
       /\ (Returned(p) /\ Res(p).execution # None) =>
            /\ plans'[p].recs = plans[p].recs
            /\ (Stored(p) /\ Stored(p)') => EventTypes(p)' = EventTypes(p)
    ]_vars

\* a plan returned the overall-deadline timeout after a failed attempt, its
\* trace ending fallback, timeout
C28_Witness ==
  \E p \in DOMAIN plans :
    /\ Returned(p)
    /\ ExecutionIs(p, "timeout", "overall-timeout")
    /\ Stored(p)
    /\ EventTypes(p) = <<"request", "scores", "attempt", "fallback", "timeout">>

\* C29: a plan that has returned has no overall-deadline timer pending, and
\* its abort signal does not change after the return.
C29_TimerCancelledOnExit ==
  [][\A p \in DOMAIN plans :
       /\ Returned(p)' => plans'[p].timer # "armed"
       /\ Returned(p) => (plans'[p].aborted = plans[p].aborted /\ plans'[p].timer = plans[p].timer)
    ]_vars

\* a plan with a deadline returned ALL_CANDIDATES_FAILED through a thrown
\* error with its timer cancelled, and the time of the deadline has come
C29_Witness ==
  \E p \in DOMAIN plans :
    /\ Returned(p)
    /\ plans[p].timer = "cleared"
    /\ ~plans[p].aborted
    /\ ExecutionIs(p, "failure", "ALL_CANDIDATES_FAILED")
    /\ \E k \in DOMAIN plans[p].outcomes : plans[p].outcomes[k].kind = "throw"
    /\ now - plans[p].armedAt >= plans[p].timeout_ms[1]

\* C30: every step in which a plan starts an executor call is a step in
\* which its overall abort signal is not aborted.
C30_NoCallAfterDeadline ==
  [][\A p \in DOMAIN plans :
       Len(plans'[p].calls) > Len(plans[p].calls) =>
         (~plans[p].aborted /\ ~plans'[p].aborted)
    ]_vars

\* the deadline fired during the first of two attempts, the attempt failed,
\* and the plan returned without calling the second candidate
C30_Witness ==
  \E p \in DOMAIN plans :
    /\ Returned(p)
    /\ plans[p].aborted
    /\ Len(plans[p].scored) = 2
    /\ Len(plans[p].calls) = 1
    /\ ReturnedStatus(plans[p].outcomes[1], "failure")

\* C31: record() changes the store only for a live trace: a step that
\* changes the events of a stored trace appends one event to a trace whose
\* TTL has not expired, and leaves its createdAt, every other trace and the
\* eviction order as they were.
C31_RecordFrame ==
  [][\A id \in DOMAIN traces :
       (id \in DOMAIN traces' /\ traces'[id].events # traces[id].events) =>
         /\ ~isExpired(traces[id], ttlMs, now)
         /\ Len(traces'[id].events) = Len(traces[id].events) + 1
         /\ SubSeq(traces'[id].events, 1, Len(traces[id].events)) = traces[id].events
         /\ traces'[id].createdAt = traces[id].createdAt
         /\ order' = order
         /\ \A other \in DOMAIN traces \ {id} :
              other \in DOMAIN traces' /\ traces'[other] = traces[other]
    ]_vars

\* the rebuilds that ended in a throw
FailedLoads == {r \in DOMAIN loads : loads[r].pc = "failed"}

\* C32: every failed registry rebuild, the one at start or one a watched
\* file event triggered, has incremented the tool_load_errors counter once:
\* the counter equals the number of failed rebuilds.
C32_ErrorCounter == metrics.toolLoadErrors = Cardinality(FailedLoads)

\* C33: once a rebuild has succeeded, hot reloads included, the tools_loaded
\* gauge equals the number of tools of the published snapshot.
C33_GaugeFollowsSnapshot ==
  (\E r \in DOMAIN loads : loads[r].pc = "done") => metrics.toolsLoaded = Len(registry)

\* C34: a published snapshot holds no two tools with the same id.
C34_UniqueIds ==
  \A i, j \in 1..Len(registry) : registry[i].id = registry[j].id => i = j

\* C35: a plan given timeout_ms = 0 runs as one given no timeout_ms: no
\* overall deadline is armed, the overall abort signal never fires, and an
\* execution status of `timeout` is one the executor itself returned, never
\* the planner's overall-deadline result, however much time passes.
C35_ZeroIsUnset ==
  \A p \in DOMAIN plans :
    (plans[p].pc # "idle" /\ plans[p].execute /\ plans[p].timeout_ms \in {None, Some(0)}) =>
      /\ plans[p].timer = "none"
      /\ ~plans[p].aborted
      /\ \A i \in DOMAIN plans[p].outcomes : ~plans[p].outcomes[i].aborted
      /\ (Returned(p) /\ plans[p].result[1].execution # None) =>
           LET e == plans[p].result[1].execution[1]
               last == plans[p].outcomes[Len(plans[p].outcomes)]
           IN /\ e.error # "overall-timeout"
              /\ e.status = "timeout" => (last.kind = "return" /\ last.status = "timeout")

\* a plan with timeout_ms = 0 whose executor threw after time had passed,
\* and which returned the failure of its candidates
C35_Witness ==
  \E p \in DOMAIN plans :
    /\ plans[p].timeout_ms = Some(0)
    /\ Returned(p)
    /\ now > plans[p].startedAt
    /\ plans[p].outcomes # <<>>
    /\ plans[p].outcomes[Len(plans[p].outcomes)].kind = "throw"
    /\ plans[p].result[1].execution = Some([status |-> "failure", error |-> "ALL_CANDIDATES_FAILED"])

\* the p95 and the cost the claim reads off a tool
StatedP95(tool) == IF tool.sla = None THEN 3000 ELSE tool.sla[1].p95_ms
StatedCost(tool) == IF tool.cost_estimate = None THEN Fin(0) ELSE tool.cost_estimate[1]

\* x < y on numbers that may be +Infinity, -Infinity, NaN or tiny
Less(x, y) ==
  IF x.fin /\ y.fin
    THEN x.v < y.v \/ (x.v = y.v /\ "tiny" \notin DOMAIN x /\ "tiny" \in DOMAIN y)
    ELSE /\ x # NaN /\ y # NaN /\ x # y
         /\ x = NegInfinity \/ y = PosInfinity

Leq(x, y) == x # NaN /\ y # NaN /\ ~Less(y, x)

\* C36: the score is monotone in p95_ms and cost: a tool that is no slower
\* and no dearer than another scores at least as high, and strictly higher,
\* hence is ranked before it, when it is cheaper or faster below the 5000 ms
\* cap; a missing SLA counts as p95_ms = 3000 and a missing cost as 0.
C36_ScoreMonotone ==
  \A p \in DOMAIN plans :
    \A i, j \in DOMAIN plans[p].scored :
      LET a == plans[p].scored[i]
          b == plans[p].scored[j]
      IN (StatedP95(a.tool) <= StatedP95(b.tool)
            /\ Leq(StatedCost(a.tool), StatedCost(b.tool))) =>
           /\ Leq(b.score, a.score)
           /\ (Less(StatedCost(a.tool), StatedCost(b.tool))
                 \/ StatedP95(a.tool) < Min(StatedP95(b.tool), 5000)) =>
                (Less(b.score, a.score) /\ i < j)

\* C37: preCheck and postCheck are history-independent: the decision of the
\* last call on a service is the decision a new service over the same
\* document gives to the same arguments.
C37_HistoryIndependent ==
  /\ lastCheck.kind = "pre" =>
       lastCheck.decision =
         preCheck(doc, EmptyCompiled,
                  [tenant |-> lastCheck.tenant, capability |-> lastCheck.capability,
                   input |-> lastCheck.data, now |-> lastCheck.now]).decision
  /\ lastCheck.kind = "post" =>
       lastCheck.decision =
         postCheck(doc, EmptyCompiled,
                   [tenant |-> lastCheck.tenant, capability |-> lastCheck.capability,
                    output |-> lastCheck.data]).decision

\* the rebuilds that have published their snapshot
Published == {r \in DOMAIN loads : loads[r].pc = "done"}

\* C38: overlapping rebuilds publish in the order they started: when a
\* rebuild publishes its snapshot, no rebuild that started after it has
\* already published, so the snapshot left once all have completed is that
\* of the most recent event.
C38_LatestRebuildWins ==
  [][\A r \in Published' \ Published :
       \A q \in Published : q < r]_vars

\* C39: the insertion-order list and the trace map agree after any
\* create/record/get/prune and any passage of time: the list holds exactly
\* the keys of the map, each once, in creation order (ids are issued in
\* increasing order, and no trace is older than one listed before it).
C39_OrderAgreesWithMap ==
  /\ Range(order) = DOMAIN traces
  /\ Len(order) = Cardinality(DOMAIN traces)
  /\ \A i, j \in DOMAIN order :
       i < j => /\ order[i] < order[j]
                /\ traces[order[i]].createdAt <= traces[order[j]].createdAt

\* a trace that was created has been deleted, by expiry or by eviction, and
\* reported absent by get(), while two traces remain in the store
C39_Witness ==
  /\ Len(order) = 2
  /\ nextId - 1 > Len(order)
  /\ \E id \in storeLog.absent : id \in DOMAIN storeLog.created /\ id \notin DOMAIN traces

\* C40: with an executor whose calls all settle, every executing plan()
\* returns; it makes at most one call per candidate, never calls a candidate
\* twice, and the result it returns after its last call carries `execution`.
C40_PlanTerminates ==
  /\ [](\A p \in DOMAIN plans :
          /\ Len(plans[p].calls) <= Len(plans[p].scored)
          /\ \A i, j \in DOMAIN plans[p].calls :
               plans[p].calls[i] = plans[p].calls[j] => i = j
          /\ (Returned(p) /\ plans[p].calls # <<>>) =>
               /\ plans[p].result[1].execution # None
               /\ Len(plans[p].outcomes) = Len(plans[p].calls))
  /\ \A p \in Plans :
       (p \in DOMAIN plans /\ plans[p].pc = "awaiting") ~> (p \in DOMAIN plans /\ Returned(p))

\* a plan that called both of its candidates, once each, and returned
C40_Witness ==
  \E p \in DOMAIN plans :
    /\ Returned(p)
    /\ Len(plans[p].scored) = 2
    /\ Len(plans[p].calls) = 2
    /\ plans[p].calls[1] # plans[p].calls[2]
    /\ plans[p].result[1].execution # None
====
